---------------------------- MODULE Spec2Model ----------------------------
(***************************************************************************)
(* A model of zaidmcs/ai-pr-reviewer: the review dispatcher, the comment   *)
(* dispatcher, the three stack reviewers (React, Laravel, Swift) and the   *)
(* three comment handlers.  Each script is a sequential process whose      *)
(* steps are the stretches of code between two awaits; the source-control  *)
(* host and the completion endpoint are the environment, which answers     *)
(* every call with one of the outcomes the code distinguishes.             *)
(*                                                                         *)
(* Text is a sequence of one-character strings.  The state holds short     *)
(* names (a file name, a languages segment, a reply) and Chars gives the   *)
(* text of a name, so that the string operations of the code (trim,        *)
(* toLowerCase, includes, the regular expressions over file names) are     *)
(* computed on the text.  The regular expressions over source lines are    *)
(* tabulated over a fixed collection of sample lines.                      *)
(***************************************************************************)
EXTENDS Integers, Sequences, FiniteSets, TLC

\* ------------------------------------------------------------------ bounds
\* The largest number of changed files the PR carries.
MaxFiles == 2

\* ------------------------------------------------------------- text toolkit
UpperCase == <<"A","B","C","D","E","F","G","H","I","J","K","L","M",
               "N","O","P","Q","R","S","T","U","V","W","X","Y","Z">>
LowerCase == <<"a","b","c","d","e","f","g","h","i","j","k","l","m",
               "n","o","p","q","r","s","t","u","v","w","x","y","z">>
Digits == {"0","1","2","3","4","5","6","7","8","9"}

Range(f) == {f[i] : i \in DOMAIN f}

\* String.prototype.toLowerCase on one character.
Lower(c) ==
  IF c \in Range(UpperCase)
    THEN LowerCase[CHOOSE i \in DOMAIN UpperCase : UpperCase[i] = c]
    ELSE c

toLowerCase(s) == [i \in DOMAIN s |-> Lower(s[i])]

\* \s of a regular expression, and the white space String.prototype.trim removes.
IsSpace(c) == c \in {" ", "\n", "\t"}

\* \w of a regular expression.
IsWord(c) == c \in Range(UpperCase) \cup Range(LowerCase) \cup Digits \cup {"_"}

\* The text t occurs in s from position i on.
MatchAt(s, i, t) ==
  /\ i >= 1
  /\ i + Len(t) - 1 <= Len(s)
  /\ \A k \in 1..Len(t) : s[i + k - 1] = t[k]

\* String.prototype.includes, and an unanchored literal regular expression.
includes(s, t) == \E i \in 1..(Len(s) + 1) : MatchAt(s, i, t)

startsWith(s, t) == MatchAt(s, 1, t)

\* A literal regular expression anchored at the end: /t$/.
endsWith(s, t) == Len(t) <= Len(s) /\ MatchAt(s, Len(s) - Len(t) + 1, t)

\* \b of a regular expression between positions i-1 and i of s.
BoundaryAt(s, i) ==
  LET before == i >= 2 /\ i - 1 <= Len(s) /\ IsWord(s[i - 1])
      after  == i >= 1 /\ i <= Len(s) /\ IsWord(s[i])
  IN  before # after

\* /\bt\b/ for a literal t.
includesWord(s, t) ==
  \E i \in 1..(Len(s) + 1) :
    MatchAt(s, i, t) /\ BoundaryAt(s, i) /\ BoundaryAt(s, i + Len(t))

\* String.prototype.trim.
RECURSIVE trimStart(_)
trimStart(s) ==
  IF s # <<>> /\ IsSpace(Head(s)) THEN trimStart(Tail(s)) ELSE s

RECURSIVE trimEnd(_)
trimEnd(s) ==
  IF s # <<>> /\ IsSpace(s[Len(s)]) THEN trimEnd(SubSeq(s, 1, Len(s) - 1)) ELSE s

trim(s) == trimEnd(trimStart(s))

\* s.replace(/t/i, ''): only the first match is dropped.
removeFirst(s, t) ==
  LET at == {i \in 1..Len(s) : MatchAt(toLowerCase(s), i, t)} IN
  IF at = {} THEN s
  ELSE LET i == CHOOSE x \in at : \A y \in at : x <= y IN
       SubSeq(s, 1, i - 1) \o SubSeq(s, i + Len(t), Len(s))

\* s.replace(/t/gi, ''): one left-to-right pass that drops every match of the
\* lower-case literal t, compared without regard to letter case.
RECURSIVE removeAllFrom(_, _, _)
removeAllFrom(s, i, t) ==
  IF i > Len(s) THEN <<>>
  ELSE IF MatchAt(toLowerCase(s), i, t) THEN removeAllFrom(s, i + Len(t), t)
  ELSE <<s[i]>> \o removeAllFrom(s, i + 1, t)

removeAll(s, t) == removeAllFrom(s, 1, t)

\* The text of each name the model holds.
Chars(s) ==
  CASE s = "src/App.jsx" -> <<"s","r","c","/","A","p","p",".","j","s","x">>
    [] s = "src/rebuild.ts" -> <<"s","r","c","/","r","e","b","u","i","l","d",".","t","s">>
    [] s = "build/out.js" -> <<"b","u","i","l","d","/","o","u","t",".","j","s">>
    [] s = "app/UserController.php" -> <<"a","p","p","/","U","s","e","r","C","o","n","t","r","o","l","l","e","r",".","p","h","p">>
    [] s = "vendor/pkg/Lib.php" -> <<"v","e","n","d","o","r","/","p","k","g","/","L","i","b",".","p","h","p">>
    [] s = "tests/UserTest.php" -> <<"t","e","s","t","s","/","U","s","e","r","T","e","s","t",".","p","h","p">>
    [] s = "Sources/View.swift" -> <<"S","o","u","r","c","e","s","/","V","i","e","w",".","s","w","i","f","t">>
    [] s = "Pods/Lib/A.swift" -> <<"P","o","d","s","/","L","i","b","/","A",".","s","w","i","f","t">>
    [] s = "App/Tests/T.swift" -> <<"A","p","p","/","T","e","s","t","s","/","T",".","s","w","i","f","t">>
    [] s = "README.md" -> <<"R","E","A","D","M","E",".","m","d">>
    [] s = "auto" -> <<"a","u","t","o">>
    [] s = "react" -> <<"r","e","a","c","t">>
    [] s = "laravel" -> <<"l","a","r","a","v","e","l">>
    [] s = "swift" -> <<"s","w","i","f","t">>
    [] s = "python" -> <<"p","y","t","h","o","n">>
    [] s = " React " -> <<" ","R","e","a","c","t"," ">>
    [] s = "AUTO" -> <<"A","U","T","O">>
    [] s = "" -> <<>>
    [] s = " " -> <<" ">>
    [] s = "@ai-reviewer" -> <<"@","a","i","-","r","e","v","i","e","w","e","r">>
    [] s = "@AI-Reviewer" -> <<"@","A","I","-","R","e","v","i","e","w","e","r">>
    [] s = "@ai-" -> <<"@","a","i","-">>
    [] s = "reviewer" -> <<"r","e","v","i","e","w","e","r">>
    [] s = "why?" -> <<"w","h","y","?">>
    [] s = "App.jsx" -> <<"A","p","p",".","j","s","x">>
    [] s = "None" -> <<"N","o","n","e">>
    [] s = "CRITICAL: None" -> <<"C","R","I","T","I","C","A","L",":"," ","N","o","n","e">>
    [] s = "- Line 3: XSS" -> <<"-"," ","L","i","n","e"," ","3",":"," ","X","S","S">>
    [] s = "No issues found" -> <<"N","o"," ","i","s","s","u","e","s"," ","f","o","u","n","d">>
    [] s = "no issues found" -> <<"n","o"," ","i","s","s","u","e","s"," ","f","o","u","n","d">>
    [] s = "none found" -> <<"n","o","n","e"," ","f","o","u","n","d">>
    [] s = "node_modules" -> <<"n","o","d","e","_","m","o","d","u","l","e","s">>
    [] s = "dist" -> <<"d","i","s","t">>
    [] s = "build" -> <<"b","u","i","l","d">>
    [] s = "coverage" -> <<"c","o","v","e","r","a","g","e">>
    [] s = ".min.js" -> <<".","m","i","n",".","j","s">>
    [] s = ".test" -> <<".","t","e","s","t">>
    [] s = ".spec" -> <<".","s","p","e","c">>
    [] s = ".js" -> <<".","j","s">>
    [] s = ".jsx" -> <<".","j","s","x">>
    [] s = ".ts" -> <<".","t","s">>
    [] s = ".tsx" -> <<".","t","s","x">>
    [] s = "vendor" -> <<"v","e","n","d","o","r">>
    [] s = "bootstrap/cache" -> <<"b","o","o","t","s","t","r","a","p","/","c","a","c","h","e">>
    [] s = "storage" -> <<"s","t","o","r","a","g","e">>
    [] s = ".blade.php" -> <<".","b","l","a","d","e",".","p","h","p">>
    [] s = "/tests/" -> <<"/","t","e","s","t","s","/">>
    [] s = "/test/" -> <<"/","t","e","s","t","/">>
    [] s = "_test.php" -> <<"_","t","e","s","t",".","p","h","p">>
    [] s = "Test.php" -> <<"T","e","s","t",".","p","h","p">>
    [] s = "Pods" -> <<"P","o","d","s">>
    [] s = "Carthage" -> <<"C","a","r","t","h","a","g","e">>
    [] s = ".build" -> <<".","b","u","i","l","d">>
    [] s = "DerivedData" -> <<"D","e","r","i","v","e","d","D","a","t","a">>
    [] s = "fastlane" -> <<"f","a","s","t","l","a","n","e">>
    [] s = "/Tests/" -> <<"/","T","e","s","t","s","/">>
    [] s = "/UITests/" -> <<"/","U","I","T","e","s","t","s","/">>
    [] s = ".php" -> <<".","p","h","p">>
    [] s = ".swift" -> <<".","s","w","i","f","t">>
    [] s = "vendor/" -> <<"v","e","n","d","o","r","/">>
    [] s = "node_modules/" -> <<"n","o","d","e","_","m","o","d","u","l","e","s","/">>
    [] s = "dist/" -> <<"d","i","s","t","/">>
    [] s = "build/" -> <<"b","u","i","l","d","/">>
    [] s = "Pods/" -> <<"P","o","d","s","/">>
    [] s = "Carthage/" -> <<"C","a","r","t","h","a","g","e","/">>
    [] s = ".build/" -> <<".","b","u","i","l","d","/">>
    [] s = "DerivedData/" -> <<"D","e","r","i","v","e","d","D","a","t","a","/">>
    [] s = "No issues" -> <<"N","o"," ","i","s","s","u","e","s">>
    [] s = "src/C01.jsx" -> <<"s","r","c","/","C","0","1",".","j","s","x">>
    [] s = "src/C02.jsx" -> <<"s","r","c","/","C","0","2",".","j","s","x">>
    [] s = "src/C03.jsx" -> <<"s","r","c","/","C","0","3",".","j","s","x">>
    [] s = "src/C04.jsx" -> <<"s","r","c","/","C","0","4",".","j","s","x">>
    [] s = "src/C05.jsx" -> <<"s","r","c","/","C","0","5",".","j","s","x">>
    [] s = "src/C06.jsx" -> <<"s","r","c","/","C","0","6",".","j","s","x">>
    [] s = "src/C07.jsx" -> <<"s","r","c","/","C","0","7",".","j","s","x">>
    [] s = "src/C08.jsx" -> <<"s","r","c","/","C","0","8",".","j","s","x">>
    [] s = "src/C09.jsx" -> <<"s","r","c","/","C","0","9",".","j","s","x">>
    [] s = "src/C10.jsx" -> <<"s","r","c","/","C","1","0",".","j","s","x">>
    [] s = "src/C11.jsx" -> <<"s","r","c","/","C","1","1",".","j","s","x">>
    [] s = "src/C12.jsx" -> <<"s","r","c","/","C","1","2",".","j","s","x">>
    [] s = "app/M01.php" -> <<"a","p","p","/","M","0","1",".","p","h","p">>
    [] s = "app/M02.php" -> <<"a","p","p","/","M","0","2",".","p","h","p">>
    [] s = "app/M03.php" -> <<"a","p","p","/","M","0","3",".","p","h","p">>
    [] s = "app/M04.php" -> <<"a","p","p","/","M","0","4",".","p","h","p">>
    [] s = "app/M05.php" -> <<"a","p","p","/","M","0","5",".","p","h","p">>
    [] s = "app/M06.php" -> <<"a","p","p","/","M","0","6",".","p","h","p">>
    [] s = "app/M07.php" -> <<"a","p","p","/","M","0","7",".","p","h","p">>
    [] s = "app/M08.php" -> <<"a","p","p","/","M","0","8",".","p","h","p">>
    [] s = "app/M09.php" -> <<"a","p","p","/","M","0","9",".","p","h","p">>
    [] s = "app/M10.php" -> <<"a","p","p","/","M","1","0",".","p","h","p">>
    [] s = "Sources/V01.swift" -> <<"S","o","u","r","c","e","s","/","V","0","1",".","s","w","i","f","t">>
    [] s = "Sources/V02.swift" -> <<"S","o","u","r","c","e","s","/","V","0","2",".","s","w","i","f","t">>
    [] s = "Sources/V03.swift" -> <<"S","o","u","r","c","e","s","/","V","0","3",".","s","w","i","f","t">>
    [] s = "Sources/V04.swift" -> <<"S","o","u","r","c","e","s","/","V","0","4",".","s","w","i","f","t">>
    [] s = "Sources/V05.swift" -> <<"S","o","u","r","c","e","s","/","V","0","5",".","s","w","i","f","t">>
    [] s = "Sources/V06.swift" -> <<"S","o","u","r","c","e","s","/","V","0","6",".","s","w","i","f","t">>
    [] s = "Sources/V07.swift" -> <<"S","o","u","r","c","e","s","/","V","0","7",".","s","w","i","f","t">>
    [] s = "Sources/V08.swift" -> <<"S","o","u","r","c","e","s","/","V","0","8",".","s","w","i","f","t">>
    [] s = "Sources/V09.swift" -> <<"S","o","u","r","c","e","s","/","V","0","9",".","s","w","i","f","t">>
    [] s = "Sources/V10.swift" -> <<"S","o","u","r","c","e","s","/","V","1","0",".","s","w","i","f","t">>
    [] s = "Sources/V11.swift" -> <<"S","o","u","r","c","e","s","/","V","1","1",".","s","w","i","f","t">>
    [] s = "Sources/V12.swift" -> <<"S","o","u","r","c","e","s","/","V","1","2",".","s","w","i","f","t">>
    [] s = "@ai-@ai-reviewerreviewer" -> <<"@","a","i","-","@","a","i","-","r","e","v","i","e","w","e","r","r","e","v","i","e","w","e","r">>

\* The text of a sequence of names, one after the other.
RECURSIVE Concat(_)
Concat(names) ==
  IF names = <<>> THEN <<>> ELSE Chars(Head(names)) \o Concat(Tail(names))

\* A JavaScript array joined with a separator character.
RECURSIVE join(_, _)
join(names, sep) ==
  IF names = <<>> THEN <<>>
  ELSE IF Len(names) = 1 THEN Chars(names[1])
  ELSE Chars(Head(names)) \o <<sep>> \o join(Tail(names), sep)

\* A batch that is the whole list.
sliceNothing(s, n) == s

\* Array.prototype.slice(0, n).
slice(s, n) == SubSeq(s, 1, IF Len(s) < n THEN Len(s) ELSE n)

\* ------------------------------------------- sample lines and rule tables
\* The sample lines of each stack, and for each regular expression of the
\* rules the sample lines it matches.
\* React: the regular expressions of analyzeCode and checkBestPractices of the
\* React reviewer, each as the set of sample lines it matches.
ReactLines == {"", "// eval(x)", "eval(code);", "props.name = 1;", "console.log(x);", "const a = b && b.c;", "useEffect(() => {", "setCount(c + 1);", "}, []);", "if (ready) {", "let total = 0;", "total = total + 1;", "class A extends Component {", "setTimeout(tick, 10);", "<img src={a} />", "document.getElementById('a');", "<div onClick={go}>"}

ReactRx(rule) ==
  CASE rule = "SkipLine" -> {"", "// eval(x)"}
    [] rule = "InnerHTML" -> {}
    [] rule = "DomAccess" -> {"document.getElementById('a');"}
    [] rule = "UseEffectCall" -> {"useEffect(() => {"}
    [] rule = "SetState" -> {"setCount(c + 1);", "setTimeout(tick, 10);"}
    [] rule = "DepsClose" -> {"}, []);"}
    [] rule = "Timer" -> {"setTimeout(tick, 10);"}
    [] rule = "UseEffectWord" -> {"useEffect(() => {"}
    [] rule = "ClearTimer" -> {}
    [] rule = "AsyncEffect" -> {}
    [] rule = "PropsWrite" -> {"props.name = 1;"}
    [] rule = "Eval" -> {"// eval(x)", "eval(code);"}
    [] rule = "BindInRender" -> {}
    [] rule = "HookCall" -> {"useEffect(() => {"}
    [] rule = "Condition" -> {"if (ready) {"}
    [] rule = "StateWrite" -> {}
    [] rule = "ClassComponent" -> {"class A extends Component {"}
    [] rule = "EffectArrow" -> {"useEffect(() => {"}
    [] rule = "DepsArray" -> {"}, []);"}
    [] rule = "InlineHandler" -> {}
    [] rule = "MapCall" -> {}
    [] rule = "JsxTag" -> {}
    [] rule = "KeyProp" -> {}
    [] rule = "IndexKey" -> {}
    [] rule = "Console" -> {"console.log(x);"}
    [] rule = "AsyncOp" -> {"setTimeout(tick, 10);"}
    [] rule = "Cleanup" -> {}
    [] rule = "AndAccess" -> {"const a = b && b.c;"}
    [] rule = "ApiCall" -> {}
    [] rule = "TryCatch" -> {}
    [] rule = "ChainedOps" -> {}
    [] rule = "RouteImport" -> {}
    [] rule = "ImgNoAlt" -> {"<img src={a} />"}
    [] rule = "LetDecl" -> {"let total = 0;"}
    [] rule = "DivButton" -> {"<div onClick={go}>"}
    [] rule = "FormTag" -> {}
    [] rule = "OnSubmit" -> {}

\* Laravel: the same for the Laravel reviewer.
LaravelLines == {"", "// dd($x);", "dd($user);", "User::create($request->all());", "$request->validate([", "class UserController {", "DB::select('SELECT * FROM users');", "public function show($id) {", "return User::find($id);"}

LaravelRx(rule) ==
  CASE rule = "SkipLine" -> {"", "// dd($x);"}
    [] rule = "Debug" -> {"// dd($x);", "dd($user);"}
    [] rule = "RawConcat" -> {}
    [] rule = "MassAssign" -> {"User::create($request->all());"}
    [] rule = "RawSelect" -> {"DB::select('SELECT * FROM users');"}
    [] rule = "FnWithId" -> {"public function show($id) {"}
    [] rule = "FindId" -> {"return User::find($id);"}
    [] rule = "Validate" -> {"$request->validate(["}
    [] rule = "Controller" -> {"class UserController {"}

\* Swift: the same for the Swift reviewer, whose rules test the trimmed line.
SwiftLines == {"", "// try!load()", "let d = try! load()", "let d = try!load()", "let v = x as!View", "let n = name!", "let n = name!x", "print(n)", "if a != b {", "run { x in self.go() }", "class VC {", "label.text = s", "DispatchQueue.global().async {", "let t = 1 // TODO"}

SwiftRx(rule) ==
  CASE rule = "SkipLine" -> {"", "// try!load()"}
    [] rule = "ForceTry" -> {"// try!load()", "let d = try!load()"}
    [] rule = "ForceCast" -> {"let v = x as!View"}
    [] rule = "ForceUnwrap" -> {"// try!load()", "let d = try!load()", "let v = x as!View", "let n = name!x"}
    [] rule = "ClosureNoCapture" -> {"run { x in self.go() }"}
    [] rule = "SelfDot" -> {"run { x in self.go() }"}
    [] rule = "WeakSelf" -> {}
    [] rule = "ClassDecl" -> {"class VC {"}
    [] rule = "Print" -> {"print(n)"}
    [] rule = "Todo" -> {"let t = 1 // TODO"}
    [] rule = "UIUpdate" -> {"label.text = s"}
    [] rule = "GlobalQueue" -> {"DispatchQueue.global().async {"}

\* The pairs of a let declaration and a line that assigns to its variable.
ReactReassigns == {<<"let total = 0;", "let total = 0;">>, <<"let total = 0;", "total = total + 1;">>}

\* ------------------------------------------------------ file-name matchers
Text(s) == Chars(s)

\* /\.(jsx?|tsx?)$/
IsJsTs(fn) == \E e \in {".js", ".jsx", ".ts", ".tsx"} : endsWith(Chars(fn), Text(e))

\* The file filter of getPRDiff of the React reviewer.
ReactMatches(f) ==
  /\ IsJsTs(f.filename)
  /\ f.status # "removed"
  /\ ~includes(Chars(f.filename), Text("node_modules/"))
  /\ ~includes(Chars(f.filename), Text("dist/"))
  /\ ~includes(Chars(f.filename), Text("build/"))

\* The file filter of getPRDiff of the Laravel reviewer.
LaravelMatches(f) ==
  /\ endsWith(Chars(f.filename), Text(".php"))
  /\ f.status # "removed"
  /\ ~includes(Chars(f.filename), Text("vendor/"))
  /\ ~includes(Chars(f.filename), Text("node_modules/"))

\* The file filter of getPRFiles of the Swift reviewer.
SwiftMatches(f) ==
  /\ endsWith(Chars(f.filename), Text(".swift"))
  /\ f.status # "removed"
  /\ ~includes(Chars(f.filename), Text("Pods/"))
  /\ ~includes(Chars(f.filename), Text("Carthage/"))
  /\ ~includes(Chars(f.filename), Text(".build/"))
  /\ ~includes(Chars(f.filename), Text("DerivedData/"))

\* A file filter that keeps every changed file.
MatchesAll(stack, f) == TRUE

Matches(stack, f) ==
  CASE stack = "react"   -> ReactMatches(f)
    [] stack = "laravel" -> LaravelMatches(f)
    [] stack = "swift"   -> SwiftMatches(f)

\* The files analyzeCode of the React reviewer skips.
ReactExcluded(fn) ==
  \/ \E w \in {"node_modules", "dist", "build", "coverage", ".min.js"} :
       includes(Chars(fn), Text(w))
  \/ \E t \in {".test", ".spec"} : \E e \in {".js", ".jsx", ".ts", ".tsx"} :
       endsWith(Chars(fn), Text(t) \o Text(e))

\* The files analyzeCode of the Laravel reviewer skips.
LaravelExcluded(fn) ==
  \/ \E w \in {"vendor", "node_modules", "bootstrap/cache", "storage"} :
       includesWord(Chars(fn), Text(w))
  \/ endsWith(Chars(fn), Text(".blade.php"))
  \/ \E w \in {"/test/", "/tests/"} : includes(toLowerCase(Chars(fn)), Text(w))
  \/ endsWith(Chars(fn), Text("_test.php"))
  \/ endsWith(Chars(fn), Text("Test.php"))

\* The files analyzeCode of the Swift reviewer skips.
SwiftExcluded(fn) ==
  \/ \E w \in {"Pods", "Carthage", ".build", "DerivedData", "fastlane"} :
       includesWord(Chars(fn), Text(w))
  \/ \E w \in {"/Tests/", "/UITests/"} : includes(Chars(fn), Text(w))

\* --------------------------------------------------------- pattern evaluator
Max(a, b) == IF a > b THEN a ELSE b
Min(a, b) == IF a < b THEN a ELSE b

\* lines.slice(from - 1, to).join('\n') as the sequence of its lines, 1-based.
Window(lines, from, to) == SubSeq(lines, Max(1, from), Min(Len(lines), to))

\* A regular expression that matches inside one line, tested on joined lines.
AnyLine(lines, table) == \E i \in DOMAIN lines : lines[i] \in table

Critical(n, type, message) == [line |-> n, type |-> type, message |-> message]

Suggestion(n, category, message, priority) ==
  [line |-> n, category |-> category, message |-> message, priority |-> priority]

When(cond, finding) == IF cond THEN <<finding>> ELSE <<>>

\* The critical rules of the React reviewer on line n, in the order of the code.
ReactCriticalAt(lines, n) ==
  LET line == lines[n] IN
     When(line \in ReactRx("InnerHTML"), Critical(n, "Security", "XSS risk"))
  \o When(line \in ReactRx("DomAccess"), Critical(n, "React", "Avoid direct DOM manipulation"))
  \o When(/\ line \in ReactRx("UseEffectCall")
          /\ AnyLine(Window(lines, n, n + 14), ReactRx("SetState"))
          /\ ~AnyLine(Window(lines, n, n + 14), ReactRx("DepsClose")),
          Critical(n, "Infinite Loop", "Potential infinite loop"))
  \o When(/\ line \in ReactRx("Timer")
          /\ AnyLine(Window(lines, n - 10, n + 9), ReactRx("UseEffectWord"))
          /\ ~AnyLine(Window(lines, n - 10, n + 9), ReactRx("ClearTimer")),
          Critical(n, "Memory Leak", "Timer without cleanup"))
  \o When(line \in ReactRx("AsyncEffect"), Critical(n, "Hook Error", "useEffect cannot be async"))
  \o When(line \in ReactRx("PropsWrite"), Critical(n, "React", "Props are read-only"))
  \o When(line \in ReactRx("Eval"), Critical(n, "Security", "eval() is dangerous"))
  \o When(line \in ReactRx("BindInRender"), Critical(n, "Performance", ".bind() in render"))
  \o When(/\ line \in ReactRx("HookCall")
          /\ AnyLine(Window(lines, n - 5, n - 1), ReactRx("Condition")),
          Critical(n, "Hooks", "Hooks cannot be called conditionally"))
  \o When(line \in ReactRx("StateWrite"), Critical(n, "React", "Never mutate state directly"))

\* The suggestion rules of the React reviewer on line n, in the order of the code.
ReactSuggestionsAt(lines, n) ==
  LET line == lines[n] IN
     When(line \in ReactRx("ClassComponent"),
          Suggestion(n, "Modern React", "Consider using functional components", "high"))
  \o When(/\ line \in ReactRx("EffectArrow")
          /\ ~AnyLine(Window(lines, n, n + 14), ReactRx("DepsArray")),
          Suggestion(n, "Hooks", "useEffect without dependency array", "high"))
  \o When(line \in ReactRx("InlineHandler"),
          Suggestion(n, "Performance", "Inline function creates new reference", "medium"))
  \o When(/\ line \in ReactRx("MapCall")
          /\ AnyLine(Window(lines, n, n + 4), ReactRx("JsxTag"))
          /\ ~AnyLine(Window(lines, n, n + 4), ReactRx("KeyProp")),
          Suggestion(n, "React", "Missing key prop in list", "high"))
  \o When(line \in ReactRx("IndexKey"),
          Suggestion(n, "React", "Avoid using array index as key", "medium"))
  \o When(line \in ReactRx("Console"),
          Suggestion(n, "Code Quality", "Remove console.log before production", "medium"))
  \o When(/\ line \in ReactRx("UseEffectWord")
          /\ AnyLine(Window(lines, n, n + 19), ReactRx("AsyncOp"))
          /\ ~AnyLine(Window(lines, n, n + 19), ReactRx("Cleanup")),
          Suggestion(n, "Memory Leaks", "useEffect with async operations", "high"))
  \o When(line \in ReactRx("AndAccess"),
          Suggestion(n, "Modern JS", "Use optional chaining", "low"))
  \o When(/\ line \in ReactRx("ApiCall")
          /\ ~AnyLine(Window(lines, n, n + 9), ReactRx("TryCatch")),
          Suggestion(n, "Error Handling", "API call without error handling", "high"))
  \o When(line \in ReactRx("ChainedOps"),
          Suggestion(n, "Performance", "Chained array operations in render", "medium"))
  \o When(line \in ReactRx("RouteImport"),
          Suggestion(n, "Performance", "Consider lazy loading route components", "medium"))
  \o When(line \in ReactRx("ImgNoAlt"),
          Suggestion(n, "Accessibility", "Images must have alt text", "high"))
  \o When(/\ line \in ReactRx("LetDecl")
          /\ ~\E k \in DOMAIN Window(lines, n + 1, n + 29) :
                <<line, Window(lines, n + 1, n + 29)[k]>> \in ReactReassigns,
          Suggestion(n, "Modern JS", "Variable is never reassigned", "low"))
  \o When(line \in ReactRx("DivButton"),
          Suggestion(n, "Accessibility", "Use semantic HTML <button>", "medium"))
  \o When(/\ line \in ReactRx("FormTag")
          /\ line \notin ReactRx("OnSubmit")
          /\ ~AnyLine(Window(lines, n, n + 4), ReactRx("OnSubmit")),
          Suggestion(n, "Forms", "Form without onSubmit handler", "medium"))

\* The critical rules of the Laravel reviewer on line n.
LaravelCriticalAt(lines, n) ==
  LET line == lines[n] IN
     When(line \in LaravelRx("Debug"), Critical(n, "Debug Code", "Debug function dd() or dump()"))
  \o When(line \in LaravelRx("RawConcat"), Critical(n, "Security", "SQL injection risk"))
  \o When(line \in LaravelRx("MassAssign"), Critical(n, "Security", "Mass assignment vulnerability"))

\* The suggestion rules of the Laravel reviewer (checkBestPractices) on line n.
LaravelSuggestionsAt(lines, n) ==
  LET line == lines[n] IN
     When(line \in LaravelRx("RawSelect"),
          Suggestion(n, "Database", "Consider using Query Builder or Eloquent", "medium"))
  \o When(/\ line \in LaravelRx("FnWithId")
          /\ AnyLine(lines, LaravelRx("Controller"))
          /\ AnyLine(Window(lines, n, n + 4), LaravelRx("FindId")),
          Suggestion(n, "Eloquent", "Use route model binding", "medium"))
  \o When(/\ line \in LaravelRx("Validate")
          /\ AnyLine(lines, LaravelRx("Controller")),
          Suggestion(n, "Validation", "Consider using Form Request classes", "medium"))

\* The critical rules of the Swift reviewer on line n.
SwiftCriticalAt(lines, n) ==
  LET line == lines[n] IN
     When(line \in SwiftRx("ForceTry"), Critical(n, "Force Try", "Avoid try!"))
  \o When(line \in SwiftRx("ForceCast"), Critical(n, "Force Cast", "Avoid as!"))

\* The suggestion rules of the Swift reviewer on line n.
SwiftSuggestionsAt(lines, n) ==
  LET line == lines[n] IN
     When(line \in SwiftRx("ForceUnwrap"),
          Suggestion(n, "Safety", "Avoid force unwrapping (!)", "medium"))
  \o When(/\ line \in SwiftRx("ClosureNoCapture")
          /\ AnyLine(Window(lines, n - 2, n + 7), SwiftRx("SelfDot"))
          /\ ~AnyLine(Window(lines, n - 2, n + 7), SwiftRx("WeakSelf"))
          /\ AnyLine(lines, SwiftRx("ClassDecl")),
          Suggestion(n, "Memory", "Consider [weak self] in closures", "medium"))
  \o When(line \in SwiftRx("Print"),
          Suggestion(n, "Cleanliness", "Remove print() or gate behind DEBUG", "medium"))
  \o When(line \in SwiftRx("Todo"),
          Suggestion(n, "Maintenance", "Address TODO/FIXME before merge", "medium"))
  \o When(/\ line \in SwiftRx("UIUpdate")
          /\ AnyLine(Window(lines, n - 5, n), SwiftRx("GlobalQueue")),
          Suggestion(n, "Concurrency", "UI updates must be on main thread", "medium"))

\* The blank and comment-leading lines the line loop returns early on.
SkipLine(stack, line) ==
  CASE stack = "react"   -> line \in ReactRx("SkipLine")
    [] stack = "laravel" -> line \in LaravelRx("SkipLine")
    [] stack = "swift"   -> line \in SwiftRx("SkipLine")

CriticalAt(stack, lines, n) ==
  CASE stack = "react"   -> ReactCriticalAt(lines, n)
    [] stack = "laravel" -> LaravelCriticalAt(lines, n)
    [] stack = "swift"   -> SwiftCriticalAt(lines, n)

SuggestionsAt(stack, lines, n) ==
  CASE stack = "react"   -> ReactSuggestionsAt(lines, n)
    [] stack = "laravel" -> LaravelSuggestionsAt(lines, n)
    [] stack = "swift"   -> SwiftSuggestionsAt(lines, n)

\* An evaluator that leaves no path out.
NothingExcluded(stack, fn) == FALSE

Excluded(stack, fn) ==
  CASE stack = "react"   -> ReactExcluded(fn)
    [] stack = "laravel" -> LaravelExcluded(fn)
    [] stack = "swift"   -> SwiftExcluded(fn)

\* lines.forEach of analyzeCode: the critical findings of lines n.. in order.
RECURSIVE criticalFrom(_, _, _)
criticalFrom(stack, lines, n) ==
  IF n > Len(lines) THEN <<>>
  ELSE (IF SkipLine(stack, lines[n]) THEN <<>> ELSE CriticalAt(stack, lines, n))
       \o criticalFrom(stack, lines, n + 1)

\* lines.forEach of checkBestPractices (in the Swift reviewer, of analyzeCode).
RECURSIVE suggestionsFrom(_, _, _)
suggestionsFrom(stack, lines, n) ==
  IF n > Len(lines) THEN <<>>
  ELSE (IF SkipLine(stack, lines[n]) THEN <<>> ELSE SuggestionsAt(stack, lines, n))
       \o suggestionsFrom(stack, lines, n + 1)

checkBestPractices(stack, content, filename) == suggestionsFrom(stack, content, 1)

\* analyzeCode(content, filename) of the reviewer of `stack`; content is the
\* sequence of the lines of the file.
analyzeCode(stack, content, filename) ==
  IF Excluded(stack, filename)
    THEN [critical |-> <<>>, suggestions |-> <<>>]
    ELSE [critical |-> criticalFrom(stack, content, 1),
          suggestions |-> checkBestPractices(stack, content, filename)]

\* ------------------------------------------------------------ the registry
Stacks == {"react", "laravel", "swift"}

Reviewers == {"react-reviewer.js", "laravel-reviewer.js", "swift-reviewer.js"}

Handlers == {"react-comment-handler.js", "comment-handler-laravel.js",
             "comment-handler-swift.js"}

\* The stack a reviewer or handler script serves.
StackOf(s) ==
  CASE s \in {"react-reviewer.js", "react-comment-handler.js"}       -> "react"
    [] s \in {"laravel-reviewer.js", "comment-handler-laravel.js"}   -> "laravel"
    [] s \in {"swift-reviewer.js", "comment-handler-swift.js"}       -> "swift"

\* files.slice(0, N): the batch cap of each reviewer.
ReactCap == 10
LaravelCap == 8
SwiftCap == 10

Cap(stack) ==
  CASE stack = "react"   -> ReactCap
    [] stack = "laravel" -> LaravelCap
    [] stack = "swift"   -> SwiftCap

\* file.patch.length > 50: the least patch that is sent to the AI.
MinPatch == 50

\* setTimeout(resolve, ms) after an AI request: the pacing delay of each
\* reviewer, in milliseconds.
ReactPace == 500
LaravelPace == 500
SwiftPace == 400

\* A pacing delay of 400 ms in every reviewer.
PaceShort(stack) == SwiftPace

Pace(stack) ==
  CASE stack = "react"   -> ReactPace
    [] stack = "laravel" -> LaravelPace
    [] stack = "swift"   -> SwiftPace

\* The name whose text is the given text (the names are the strings the
\* dispatchers compare and look up).
LangNames == {"auto", "react", "laravel", "swift", "python", ""}
NameOf(text) == CHOOSE n \in LangNames : Chars(n) = text

\* parseLanguages(input): input is given as its comma-separated segments.
parseLanguages(segments) ==
  LET input == join(segments, ",") IN
  IF input = <<>> \/ trim(input) = <<>> \/ toLowerCase(trim(input)) = Chars("auto")
    THEN <<"auto">>
    ELSE SelectSeq([i \in DOMAIN segments |->
                      NameOf(toLowerCase(trim(Chars(segments[i]))))],
                   LAMBDA n : n # "")

\* detectLanguagesFromPR() of the review dispatcher.
detectLanguagesFromPR(prNumber) ==
  IF prNumber = 0 THEN <<>> ELSE <<"react", "laravel">>

\* scriptMap of runScript of the review dispatcher; "" when the name has no path.
ReviewScript(name) ==
  CASE name = "react"   -> "react-reviewer.js"
    [] name = "laravel" -> "laravel-reviewer.js"
    [] OTHER            -> ""

\* scriptMap of runScript of the comment dispatcher.
CommentScript(name) ==
  CASE name = "react"   -> "react-comment-handler.js"
    [] name = "laravel" -> "comment-handler-laravel.js"
    [] OTHER            -> ""

\* The list of reviewers the review dispatcher decides to run.
ReviewToRun(segments, prNumber) ==
  LET langsInput == parseLanguages(segments)
      detected   == IF "auto" \in Range(langsInput)
                      THEN detectLanguagesFromPR(prNumber) ELSE langsInput
  IN  IF detected = <<>> THEN <<"react">> ELSE detected

\* The list of handlers the comment dispatcher decides to run.
CommentToRun(segments) ==
  LET langs == parseLanguages(segments) IN
  IF "auto" \in Range(langs) THEN <<"react", "laravel">> ELSE langs

\* -------------------------------------------------------- AI reply handling
\* The outcomes of a completion request that carry no reply: the transport
\* throws, the status is not OK, the body has no choices, the content is empty.
AIFailures == {"throw", "notok", "malformed", "empty"}

\* The replies of the completion endpoint.
Replies == {"CRITICAL: None", "- Line 3: XSS", "No issues found", "no issues found"}

\* What callGroqAI returns for an outcome of the request: the reply, or "" for null.
callGroqAI(outcome) == IF outcome \in AIFailures THEN "" ELSE outcome

\* Whether reviewPR keeps the reply of the AI for the report.
KeepsReview(stack, aiReview) ==
  IF stack = "swift"
    THEN aiReview # "" /\ ~includes(toLowerCase(Chars(aiReview)), toLowerCase(Chars("None")))
    ELSE /\ aiReview # ""
         /\ ~includes(Chars(aiReview), Chars("None"))
         /\ ~includes(Chars(aiReview), Chars("No issues"))

\* GROQ_API_KEY && file.patch && file.patch.length > 50
WantsAI(key, file) == key # "" /\ file.patch # 0 /\ file.patch > MinPatch

\* file.patch.slice(0, N): the longest part of a patch a prompt carries.
ReactPreview == 3500
LaravelPreview == 3000
SwiftPreview == 3000

\* A preview of 3500 characters in every reviewer.
PreviewLoose(stack) == ReactPreview

PreviewCap(stack) ==
  CASE stack = "react"   -> ReactPreview
    [] stack = "laravel" -> LaravelPreview
    [] stack = "swift"   -> SwiftPreview

\* The text of the patch of n characters: diff lines of five characters.
PatchText(n) ==
  [i \in 1..n |-> CASE i % 5 = 1 -> "+"
                   [] i % 5 = 0 -> "\n"
                   [] OTHER     -> IF (i \div 5) % 2 = 0 THEN "a" ELSE "b"]

\* const patchPreview = file.patch.slice(0, N), as it is put in the prompt.
patchPreview(stack, file) == slice(PatchText(file.patch), PreviewCap(stack))

\* ------------------------------------------------------------- the report
Part(kind, file, line, tag, text) ==
  [part |-> kind, file |-> file, line |-> line, tag |-> tag, text |-> text]

RECURSIVE totalIssues(_)
totalIssues(critical) ==
  IF critical = <<>> THEN 0
  ELSE Len(Head(critical).issues) + totalIssues(Tail(critical))

RECURSIVE renderCritical(_, _)
renderCritical(stack, critical) ==
  IF critical = <<>> THEN <<>>
  ELSE LET e == Head(critical) IN
       <<Part("critical-file", e.file, 0, "", "")>>
       \o [k \in 1..Len(e.issues) |->
             Part("critical-issue", e.file, e.issues[k].line,
                  IF stack = "laravel" THEN "" ELSE e.issues[k].type,
                  e.issues[k].message)]
       \o renderCritical(stack, Tail(critical))

\* An AI section that shows no review.
renderNoReview(reviews) == <<>>

\* aiReviews.forEach: one expandable block per file.
renderAI(reviews) ==
  [k \in 1..Len(reviews) |-> Part("ai-review", reviews[k].file, 0, "", reviews[k].review)]

\* allSuggestions flattened in file order, each with its file.
RECURSIVE flatSuggestions(_)
flatSuggestions(all) ==
  IF all = <<>> THEN <<>>
  ELSE LET e == Head(all) IN
       [k \in 1..Len(e.suggestions) |->
          [file |-> e.file, line |-> e.suggestions[k].line,
           category |-> e.suggestions[k].category,
           message |-> e.suggestions[k].message,
           priority |-> e.suggestions[k].priority]]
       \o flatSuggestions(Tail(all))

\* Object.keys(categorizedSuggestions): the categories in order of first use.
RECURSIVE categoriesOf(_, _)
categoriesOf(items, seen) ==
  IF items = <<>> THEN <<>>
  ELSE IF Head(items).category \in seen THEN categoriesOf(Tail(items), seen)
  ELSE <<Head(items).category>>
       \o categoriesOf(Tail(items), seen \cup {Head(items).category})

priorityOrder(p) == CASE p = "high" -> 0 [] p = "medium" -> 1 [] p = "low" -> 2

\* Math.min(...items.map(s => priorityOrder[s.priority])) of a category.
minPriority(items, category) ==
  LET ps == {priorityOrder(items[k].priority) :
               k \in {j \in DOMAIN items : items[j].category = category}}
  IN  CHOOSE p \in ps : \A q \in ps : p <= q

\* The categories in the order of their first suggestion.
unsortedCategories(items) == categoriesOf(items, {})

\* The stable sort of the categories by their least priority.
sortedCategories(items) ==
  LET cats == categoriesOf(items, {}) IN
     SelectSeq(cats, LAMBDA c : minPriority(items, c) = 0)
  \o SelectSeq(cats, LAMBDA c : minPriority(items, c) = 1)
  \o SelectSeq(cats, LAMBDA c : minPriority(items, c) = 2)

itemsOf(items, category, priority) ==
  LET sel == SelectSeq(items, LAMBDA s : s.category = category /\ s.priority = priority)
  IN  [k \in 1..Len(sel) |->
         Part("suggestion", sel[k].file, sel[k].line, priority, sel[k].message)]

RECURSIVE renderCategories(_, _)
renderCategories(items, cats) ==
  IF cats = <<>> THEN <<>>
  ELSE <<Part("category", "", 0, Head(cats), "")>>
       \o itemsOf(items, Head(cats), "high")
       \o itemsOf(items, Head(cats), "medium")
       \o itemsOf(items, Head(cats), "low")
       \o renderCategories(items, Tail(cats))

\* The suggestions section of each reviewer; the Laravel reviewer has none.
renderSuggestions(stack, all) ==
  LET items == flatSuggestions(all) IN
  IF all = <<>> \/ stack = "laravel" THEN <<>>
  ELSE IF stack = "swift"
    THEN <<Part("suggestions-header", "", 0, "", "")>>
         \o [k \in 1..Len(items) |->
               Part("suggestion", items[k].file, items[k].line,
                    items[k].category, items[k].message)]
  ELSE <<Part("suggestions-header", "", 0, "", "")>>
       \o renderCategories(items, sortedCategories(items))

\* The comment reviewPR builds, as the sequence of its parts.
renderComment(stack, critical, reviews, suggestions) ==
     <<Part("title", "", 0, stack, "")>>
  \o (IF critical # <<>>
        THEN <<Part("critical-count", "", totalIssues(critical), "", "")>> ELSE <<>>)
  \o (IF critical # <<>>
        THEN <<Part("critical-header", "", 0, "", "")>> \o renderCritical(stack, critical)
        ELSE <<>>)
  \o (IF reviews # <<>>
        THEN <<Part("ai-header", "", 0, "", "")>> \o renderAI(reviews) ELSE <<>>)
  \o (IF stack = "laravel" THEN <<>> ELSE renderSuggestions(stack, suggestions))
  \o (IF critical = <<>> /\ reviews = <<>>
        THEN <<Part("no-critical", "", 0, "", "")>> ELSE <<>>)
  \o (IF stack = "react" THEN <<Part("legend", "", 0, "", "")>> ELSE <<>>)
  \o <<Part("usage-hint", "", 0, "", "")>>

\* The findings reviewPR has accumulated so far.
Findings(critical, suggestions, reviews) ==
  [allCritical |-> critical, allSuggestions |-> suggestions, aiReviews |-> reviews]

\* A gate that counts the suggestions as well.
hasAnyIssue(acc) == Len(acc.allCritical) > 0 \/ Len(acc.allSuggestions) > 0

\* A gate that counts the AI reviews as well.
hasFindings(acc) == Len(acc.allCritical) > 0 \/ Len(acc.aiReviews) > 0

\* const hasCritical = allCritical.length > 0
hasCritical(acc) == Len(acc.allCritical) > 0

\* The exit status reviewPR leaves behind: the Swift reviewer assigns it in
\* both cases, the other two only when there is a critical finding.
ExitAfterReview(stack, acc, before) ==
  IF hasCritical(acc) THEN 1 ELSE IF stack = "swift" THEN 0 ELSE before

\* The accumulators after analyzeCode of a fetched file.
AfterFetch(stack, acc, file, content) ==
  LET r == analyzeCode(stack, content, file.filename) IN
  [allCritical    |-> IF Len(r.critical) > 0
                        THEN Append(acc.allCritical,
                                    [file |-> file.filename, issues |-> r.critical])
                        ELSE acc.allCritical,
   allSuggestions |-> IF Len(r.suggestions) > 0
                        THEN Append(acc.allSuggestions,
                                    [file |-> file.filename, suggestions |-> r.suggestions])
                        ELSE acc.allSuggestions,
   aiReviews      |-> acc.aiReviews]

\* An AI review that, once kept, stands in for the pattern findings of its file.
AfterAIReplacing(stack, acc, file, aiReview) ==
  IF KeepsReview(stack, aiReview)
    THEN [allCritical    |-> SelectSeq(acc.allCritical, LAMBDA e : e.file # file.filename),
          allSuggestions |-> acc.allSuggestions,
          aiReviews      |-> Append(acc.aiReviews,
                                    [file |-> file.filename, review |-> aiReview])]
    ELSE acc

\* The accumulators after the reply of the AI for a file.
AfterAI(stack, acc, file, aiReview) ==
  IF KeepsReview(stack, aiReview)
    THEN [acc EXCEPT !.aiReviews = Append(@, [file |-> file.filename, review |-> aiReview])]
    ELSE acc

\* ------------------------------------------------------------ environment
\* The ways octokit.repos.getContent fails inside the per-file try block: the
\* request throws, or the answer has no content to decode.
FetchFailures == {"error", "nocontent"}

\* The contents the repository holds for a file of each stack.
RepoContents(stack) ==
  CASE stack = "react" ->
         { <<"console.log(x);">>, <<"eval(code);">>,
           <<"eval(code);", "console.log(x);">>, <<"// eval(x)", "">> }
    [] stack = "laravel" ->
         { <<"DB::select('SELECT * FROM users');">>, <<"dd($user);">>,
           <<"dd($user);", "DB::select('SELECT * FROM users');">>, <<"// dd($x);", "">> }
    [] stack = "swift" ->
         { <<"print(n)">>, <<"let d = try!load()">>,
           <<"let d = try!load()", "print(n)">>, <<"// try!load()", "">>,
           <<"let n = name!">> }

\* The changed files a pull request is drawn from: file name, status and the
\* length of the patch (0 when the host sends none).
File(name, status, patch) == [filename |-> name, status |-> status, patch |-> patch]

Catalog ==
  << File("src/rebuild.ts", "added", 40),
     File("src/App.jsx", "modified", 60),
     File("build/out.js", "removed", 60),
     File("tests/UserTest.php", "added", 0),
     File("app/UserController.php", "modified", 60),
     File("vendor/pkg/Lib.php", "modified", 60),
     File("App/Tests/T.swift", "added", 40),
     File("Sources/View.swift", "modified", 60),
     File("Pods/Lib/A.swift", "removed", 0),
     File("README.md", "modified", 60) >>

\* The pull requests: at most MaxFiles files of the catalog, in its order.
RECURSIVE Picks(_, _)
Picks(from, n) ==
  IF n = 0 \/ from > Len(Catalog) THEN { <<>> }
  ELSE Picks(from + 1, n) \cup { <<Catalog[from]>> \o rest : rest \in Picks(from + 1, n - 1) }

PullRequests == Picks(1, MaxFiles)

\* The values of the languages input, as comma-separated segments.
LanguageInputs ==
  { <<"">>, <<"auto">>, <<"AUTO">>, <<"react">>, <<" React ">>, <<"laravel">>,
    <<"swift">>, <<"python">>, <<"react", "laravel">>, <<"react", "swift">>,
    <<"laravel", "auto">>, <<"react", "python">>, <<" ", "">> }

\* ------------------------------------------------------------------ state
VARIABLES
  entry,           \* the script the workflow step starts
  LANGUAGES,       \* the languages input
  PR_NUMBER,       \* the pull request number of the event, 0 when there is none
  GROQ_API_KEY,    \* "" when the secret is not configured
  prFiles,         \* the changed files the host lists for the pull request
  COMMENT_BODY,    \* the body of the comment of the event, in pieces
  dpc,             \* dispatcher: its position
  toRun,           \* dispatcher: the names it is going to run
  di,              \* dispatcher: index into toRun
  fail,            \* dispatcher: the exit status it has recorded
  dispatcherExit,  \* dispatcher: process.exitCode
  spawned,         \* dispatcher: the scripts it has spawned, in order
  ended,           \* dispatcher: what spawnSync returned for each of them, in order
  script,          \* the reviewer or handler that is running, "" when none
  pc,              \* its position
  exitCode,        \* its process.exitCode
  files,           \* reviewer: the files getPRDiff returned
  idx,             \* reviewer: position in the batch
  allCritical,     \* reviewer
  allSuggestions,  \* reviewer
  aiReviews,       \* reviewer
  waited,          \* milliseconds of pacing waited since the last AI request returned
  question,        \* handler: the extracted question
  fileContent,     \* handler: whether the mentioned file was fetched
  context,         \* handler: the pull request context
  answer,          \* handler: the reply it is going to post
  calls,           \* every request sent to the host or to the AI, in order
  comments,        \* the comments that exist on the pull request, in order
  evaluated,       \* every file analyzeCode was applied to, with its content
  twin             \* a second run of the reviewer with the same critical findings

inputs == <<entry, LANGUAGES, PR_NUMBER, GROQ_API_KEY, prFiles, COMMENT_BODY>>
dvars == <<dpc, toRun, di, fail, dispatcherExit, spawned, ended>>
rvars == <<files, idx, allCritical, allSuggestions, aiReviews, waited>>
hvars == <<question, fileContent, context, answer>>
vars == <<inputs, dvars, script, pc, exitCode, rvars, hvars, calls, comments,
          evaluated, twin>>

\* A request: the interface, its subject, whether it succeeded, and for a
\* review prompt the diff text it carries and what callGroqAI returned.
Call(api, arg, ok) ==
  [api |-> api, by |-> script, arg |-> arg, ok |-> ok, diff |-> <<>>, reply |-> ""]

\* The second run: whether there is one, what it shares with the first (the
\* critical findings, or the fetch outcomes and contents), its own key, its
\* accumulators and its exit status.
NoTwin ==
  [on |-> FALSE, same |-> "critical", key |-> "",
   acc |-> Findings(<<>>, <<>>, <<>>), exitCode |-> 0]

\* The state of a script that has just been started.
Fresh ==
  /\ pc = "start" /\ exitCode = 0
  /\ files = <<>> /\ idx = 1
  /\ allCritical = <<>> /\ allSuggestions = <<>> /\ aiReviews = <<>>
  /\ waited = 0
  /\ question = <<>> /\ fileContent = "" /\ context = "" /\ answer = ""

NoEffects == calls = <<>> /\ comments = <<>> /\ evaluated = <<>>

NoDispatcher ==
  /\ dpc = "none" /\ toRun = <<>> /\ di = 1 /\ fail = 0 /\ dispatcherExit = 0
  /\ spawned = <<>> /\ ended = <<>>

\* ------------------------------------------------------------ the reviewers
Reviewing == script \in Reviewers

Batch == slice(files, Cap(StackOf(script)))

Acc == Findings(allCritical, allSuggestions, aiReviews)

\* What the second run makes of the same file: its own fetch outcome, its own
\* content and its own AI outcome.
TwinFile(stack, key, acc, file, fetched, reply) ==
  IF fetched \in FetchFailures THEN acc
  ELSE LET a == AfterFetch(stack, acc, file, fetched) IN
       IF WantsAI(key, file) THEN AfterAI(stack, a, file, callGroqAI(reply)) ELSE a

\* The second run on the file the first run has just fetched with outcome
\* got.  When the two share the critical findings, the second takes any
\* outcome that gives it the same critical findings as the first; when they
\* share the contents, it takes the same fetch outcome.  Its AI outcome is
\* its own in both cases.
TwinStep(stack, file, acc, got) ==
  IF twin.on
    THEN \E fetched \in IF twin.same = "content" THEN {got}
                         ELSE FetchFailures \cup RepoContents(stack),
            reply \in AIFailures \cup Replies :
           LET t == TwinFile(stack, twin.key, twin.acc, file, fetched, reply) IN
           /\ twin.same = "critical" => t.allCritical = acc.allCritical
           /\ twin' = [twin EXCEPT !.acc = t]
    ELSE UNCHANGED twin

\* reviewPR: if (!PR_NUMBER) return
reviewPR_NotAPR ==
  /\ Reviewing /\ pc = "start" /\ PR_NUMBER = 0
  /\ pc' = "done"
  /\ UNCHANGED <<inputs, dvars, script, exitCode, rvars, hvars, calls, comments,
                 evaluated, twin>>

\* getPRDiff / getPRFiles: list the files and keep those of the stack; a
\* failure of the request is the empty list.  No file: reviewPR returns.
getPRDiff(ok) ==
  /\ Reviewing /\ pc = "start" /\ PR_NUMBER # 0
  /\ calls' = Append(calls, Call("listFiles", "", ok))
  /\ files' = IF ok THEN SelectSeq(prFiles, LAMBDA f : Matches(StackOf(script), f))
                    ELSE <<>>
  /\ pc' = IF files' = <<>> THEN "done" ELSE "loop"
  /\ UNCHANGED <<inputs, dvars, script, exitCode, idx, allCritical, allSuggestions,
                 aiReviews, waited, hvars, comments, evaluated, twin>>

\* A loop that gives up on the whole batch at the first failure.
abortBatch(i, n) == n + 1

\* catch (error) { console.error(...) }: the loop goes on with the next file.
afterCatch(i, n) == i + 1

\* One turn of the loop up to the request for the content failing: the catch
\* block logs and the loop goes to the next file.
getContent_Fails(how) ==
  /\ Reviewing /\ pc = "loop" /\ idx <= Len(Batch)
  /\ calls' = Append(calls, Call("getContent", Batch[idx].filename, FALSE))
  /\ idx' = afterCatch(idx, Len(Batch))
  /\ TwinStep(StackOf(script), Batch[idx], Acc, how)
  /\ UNCHANGED <<inputs, dvars, script, pc, exitCode, files, allCritical,
                 allSuggestions, aiReviews, waited, hvars, comments, evaluated>>

\* One turn of the loop with the content fetched: analyzeCode, the pushes, and
\* either the request to the AI or the next file.
getContent(content) ==
  LET stack == StackOf(script)
      file  == Batch[idx]
      acc   == AfterFetch(stack, Acc, file, content)
  IN
  /\ Reviewing /\ pc = "loop" /\ idx <= Len(Batch)
  /\ calls' = Append(calls, Call("getContent", file.filename, TRUE))
  /\ evaluated' = Append(evaluated, [by |-> script, file |-> file.filename,
                                     content |-> content])
  /\ allCritical' = acc.allCritical
  /\ allSuggestions' = acc.allSuggestions
  /\ IF WantsAI(GROQ_API_KEY, file)
       THEN pc' = "callGroqAI" /\ idx' = idx
       ELSE pc' = "loop" /\ idx' = idx + 1
  /\ TwinStep(stack, file, acc, content)
  /\ UNCHANGED <<inputs, dvars, script, exitCode, files, aiReviews, waited, hvars,
                 comments>>

\* A loop that asks the AI again when a request brought no reply.
retryOnFailure(outcome) == IF outcome \in AIFailures THEN "callGroqAI" ELSE "delay"

\* Where the loop goes after callGroqAI returned: to the delay before the
\* next file, whatever the outcome (callGroqAI catches and returns '').
afterReply(outcome) == "delay"

\* const aiReview = await callGroqAI(prompt), and the push of the review.
callGroqAI_Returns(outcome) ==
  LET stack == StackOf(script)
      file  == Batch[idx]
      acc   == AfterAI(stack, Acc, file, callGroqAI(outcome))
  IN
  /\ Reviewing /\ pc = "callGroqAI"
  /\ calls' = Append(calls, [Call("completion", file.filename, outcome \notin AIFailures)
                               EXCEPT !.diff = patchPreview(stack, file),
                                      !.reply = callGroqAI(outcome)])
  /\ aiReviews' = acc.aiReviews
  /\ pc' = afterReply(outcome)
  /\ waited' = 0
  /\ UNCHANGED <<inputs, dvars, script, exitCode, files, idx, allCritical,
                 allSuggestions, hvars, comments, evaluated, twin>>

\* await new Promise(resolve => setTimeout(resolve, ...)), then the next file.
delay ==
  /\ Reviewing /\ pc = "delay"
  /\ pc' = "loop"
  /\ idx' = idx + 1
  /\ waited' = Pace(StackOf(script))
  /\ UNCHANGED <<inputs, dvars, script, exitCode, files, allCritical,
                 allSuggestions, aiReviews, hvars, calls, comments, evaluated, twin>>

\* After the loop: build the comment, postReviewComment (which swallows a
\* failure of the request), and set the exit status.
postReviewComment(ok) ==
  LET stack == StackOf(script) IN
  /\ Reviewing /\ pc = "loop" /\ idx > Len(Batch)
  /\ calls' = Append(calls, Call("createComment", "review", ok))
  /\ comments' = IF ok
       THEN Append(comments,
                   [by |-> script,
                    body |-> renderComment(stack, allCritical, aiReviews, allSuggestions)])
       ELSE comments
  /\ exitCode' = ExitAfterReview(stack, Acc, exitCode)
  /\ twin' = IF twin.on
               THEN [twin EXCEPT !.exitCode = ExitAfterReview(stack, twin.acc, @)]
               ELSE twin
  /\ pc' = "done"
  /\ UNCHANGED <<inputs, dvars, script, rvars, hvars, evaluated>>

ReviewerStep ==
  \/ reviewPR_NotAPR
  \/ \E ok \in BOOLEAN : getPRDiff(ok)
  \/ \E how \in FetchFailures : getContent_Fails(how)
  \/ Reviewing /\ \E content \in RepoContents(StackOf(script)) : getContent(content)
  \/ \E outcome \in AIFailures \cup Replies : callGroqAI_Returns(outcome)
  \/ delay
  \/ \E ok \in BOOLEAN : postReviewComment(ok)

\* A reviewer started directly by a workflow step.
InitReview ==
  /\ entry \in Reviewers
  /\ LANGUAGES = <<"auto">>
  /\ PR_NUMBER \in {0, 7}
  /\ GROQ_API_KEY \in {"", "key"}
  /\ prFiles \in PullRequests
  /\ COMMENT_BODY = <<>>
  /\ NoDispatcher
  /\ script = entry
  /\ Fresh /\ NoEffects
  /\ twin = NoTwin

SpecReview == InitReview /\ [][ReviewerStep]_vars

\* ------------------------------------------- pull requests beyond the cap
\* The number of matching files a long pull request has beyond the cap.
Beyond == 1

\* The files of a long pull request of a stack, in the order the host lists
\* them.
LongNames(stack) ==
  CASE stack = "react" ->
         << "src/C01.jsx", "src/C02.jsx", "src/C03.jsx", "src/C04.jsx",
            "src/C05.jsx", "src/C06.jsx", "src/C07.jsx", "src/C08.jsx",
            "src/C09.jsx", "src/C10.jsx", "src/C11.jsx", "src/C12.jsx" >>
    [] stack = "laravel" ->
         << "app/M01.php", "app/M02.php", "app/M03.php", "app/M04.php",
            "app/M05.php", "app/M06.php", "app/M07.php", "app/M08.php",
            "app/M09.php", "app/M10.php" >>
    [] stack = "swift" ->
         << "Sources/V01.swift", "Sources/V02.swift", "Sources/V03.swift",
            "Sources/V04.swift", "Sources/V05.swift", "Sources/V06.swift",
            "Sources/V07.swift", "Sources/V08.swift", "Sources/V09.swift",
            "Sources/V10.swift", "Sources/V11.swift", "Sources/V12.swift" >>

\* A pull request that changes the documentation and then n files of a stack.
LongPR(stack, n) ==
  <<File("README.md", "modified", 60)>>
    \o [i \in 1..n |-> File(LongNames(stack)[i], "modified", 60)]

\* The contents a file of a long pull request has: one clean of critical
\* patterns, one with a critical pattern.
LongContents(stack) ==
  CASE stack = "react"   -> { <<"console.log(x);">>, <<"eval(code);">> }
    [] stack = "laravel" -> { <<"DB::select('SELECT * FROM users');">>, <<"dd($user);">> }
    [] stack = "swift"   -> { <<"print(n)">>, <<"let d = try!load()">> }

\* A reviewer started on a pull request with one file fewer than its cap, as
\* many as its cap, or more.
InitCap ==
  /\ entry \in Reviewers
  /\ LANGUAGES = <<"auto">>
  /\ PR_NUMBER = 7
  /\ GROQ_API_KEY \in {"", "key"}
  /\ \E n \in (Cap(StackOf(entry)) - 1)..(Cap(StackOf(entry)) + Beyond) :
       prFiles = LongPR(StackOf(entry), n)
  /\ COMMENT_BODY = <<>>
  /\ NoDispatcher
  /\ script = entry
  /\ Fresh /\ NoEffects
  /\ twin = NoTwin

\* The run of the reviewer when the host answers every request and the AI
\* replies with a review.
NextCap ==
  \/ getPRDiff(TRUE)
  \/ Reviewing /\ \E content \in LongContents(StackOf(script)) : getContent(content)
  \/ callGroqAI_Returns("- Line 3: XSS")
  \/ delay
  \/ postReviewComment(TRUE)

SpecCap == InitCap /\ [][NextCap]_vars

\* A reviewer started on a pull request with two files that both go to the
\* AI when a key is configured; the host and the AI answer in any way.
InitPace ==
  /\ entry \in Reviewers
  /\ LANGUAGES = <<"auto">>
  /\ PR_NUMBER \in {0, 7}
  /\ GROQ_API_KEY \in {"", "key"}
  /\ prFiles = LongPR(StackOf(entry), 2)
  /\ COMMENT_BODY = <<>>
  /\ NoDispatcher
  /\ script = entry
  /\ Fresh /\ NoEffects
  /\ twin = NoTwin

SpecPace == InitPace /\ [][ReviewerStep]_vars

\* A reviewer started on a pull request with one file of its stack, whose
\* patch is none, at or just over the least patch sent to the AI, or around
\* the longest preview.
InitPrompt ==
  /\ entry \in Reviewers
  /\ LANGUAGES = <<"auto">>
  /\ PR_NUMBER \in {0, 7}
  /\ GROQ_API_KEY \in {"", "key"}
  /\ \E n \in {0, MinPatch, MinPatch + 1}
             \cup ((PreviewCap(StackOf(entry)) - 1)..(PreviewCap(StackOf(entry)) + Beyond)) :
       prFiles = <<File(LongNames(StackOf(entry))[1], "modified", n)>>
  /\ COMMENT_BODY = <<>>
  /\ NoDispatcher
  /\ script = entry
  /\ Fresh /\ NoEffects
  /\ twin = NoTwin

SpecPrompt == InitPrompt /\ [][ReviewerStep]_vars

\* ------------------------------------------------------- the comment handlers
Handling == script \in Handlers

\* The longest number of pieces a comment body is made of.
MaxPieces == 2

Pieces ==
  {"@ai-reviewer", "@AI-Reviewer", "@ai-", "reviewer", " ", "why?", "App.jsx",
   "@ai-@ai-reviewerreviewer"}

RECURSIVE SeqsUpTo(_, _)
SeqsUpTo(S, n) ==
  IF n = 0 THEN { <<>> }
  ELSE SeqsUpTo(S, n - 1)
       \cup { Append(s, x) : s \in { t \in SeqsUpTo(S, n - 1) : Len(t) = n - 1 }, x \in S }

CommentBodies == SeqsUpTo(Pieces, MaxPieces)

\* extractQuestion(comment): comment.replace(/@ai-reviewer/gi, '').trim()
extractQuestion(comment) == trim(removeAll(comment, Chars("@ai-reviewer")))

\* [\w-] of the file pattern.
NameChar(c) == IsWord(c) \/ c = "-"

\* The match of /\b[\w-]+\.(jsx?|tsx?)\b/ that starts at position i, <<>> if none.
FileAt(s, i) ==
  LET ends == {e \in i..Len(s) : \A k \in i..e : NameChar(s[k])}
      e    == CHOOSE x \in ends : \A y \in ends : y <= x
      exts == {x \in {<<"j","s","x">>, <<"j","s">>, <<"t","s","x">>, <<"t","s">>} :
                 MatchAt(s, e + 2, x) /\ BoundaryAt(s, e + 2 + Len(x))}
      ext  == CHOOSE x \in exts : \A y \in exts : Len(y) <= Len(x)
  IN  IF i <= Len(s) /\ BoundaryAt(s, i) /\ ends # {}
         /\ e + 1 <= Len(s) /\ s[e + 1] = "." /\ exts # {}
        THEN SubSeq(s, i, e + 1 + Len(ext))
        ELSE <<>>

\* detectFileName(question): the leftmost match, <<>> for null.
detectFileName(q) ==
  LET starts == {i \in 1..Len(q) : FileAt(q, i) # <<>>} IN
  IF starts = {} THEN <<>>
  ELSE FileAt(q, CHOOSE i \in starts : \A j \in starts : i <= j)

\* The answers of the completion endpoint to a question.
Answers == {"Wrap the handler in useCallback."}

NotConfigured == "GROQ_API_KEY not configured"
ServiceError == "Error communicating with AI service"
CommunicationError == "Error communicating with AI"
NoResponse == "Unable to get AI response"

Fallbacks == {NotConfigured, ServiceError, CommunicationError, NoResponse}

\* What askAI returns once the request has come back with the given outcome:
\* only the React handler looks at response.ok; in the other two the body of
\* a failed response has no choices and the access throws.
askAI(stack, outcome) ==
  CASE outcome = "throw"     -> CommunicationError
    [] outcome = "notok"     -> IF stack = "react" THEN ServiceError ELSE CommunicationError
    [] outcome = "malformed" -> CommunicationError
    [] outcome = "empty"     -> NoResponse
    [] OTHER                 -> outcome

Reply(kind, text) == [by |-> script, body |-> <<Part(kind, "", 0, StackOf(script), text)>>]

\* handleComment with an empty question: the help reply, then return.
\* postReply swallows a failure of the request.
handleComment_Help(ok) ==
  /\ Handling /\ pc = "start"
  /\ extractQuestion(Concat(COMMENT_BODY)) = <<>>
  /\ calls' = Append(calls, Call("createComment", "help", ok))
  /\ comments' = IF ok THEN Append(comments, Reply("help", "")) ELSE comments
  /\ pc' = "done"
  /\ UNCHANGED <<inputs, dvars, script, exitCode, rvars, hvars, evaluated, twin>>

\* handleComment with a question, up to its first request.
handleComment_Question ==
  LET q == extractQuestion(Concat(COMMENT_BODY)) IN
  /\ Handling /\ pc = "start"
  /\ q # <<>>
  /\ question' = q
  /\ pc' = IF StackOf(script) = "react" /\ detectFileName(q) # <<>>
             THEN "getContent" ELSE "getPRContext"
  /\ UNCHANGED <<inputs, dvars, script, exitCode, rvars, fileContent, context,
                 answer, calls, comments, evaluated, twin>>

\* The React handler fetches the file the question mentions; a failure leaves
\* fileContent null.
handler_getContent(ok) ==
  /\ Handling /\ pc = "getContent"
  /\ calls' = Append(calls, Call("getContent", "", ok))
  /\ fileContent' = IF ok THEN "content" ELSE ""
  /\ pc' = "getPRContext"
  /\ UNCHANGED <<inputs, dvars, script, exitCode, rvars, question, context, answer,
                 comments, evaluated, twin>>

\* getPRContext: pulls.get, then pulls.listFiles; a failure of either gives ''.
ContextOutcomes == {"ok", "get-fails", "list-fails"}

getPRContext(outcome) ==
  /\ Handling /\ pc = "getPRContext"
  /\ calls' = IF outcome = "get-fails"
                THEN Append(calls, Call("pulls.get", "", FALSE))
                ELSE calls \o <<Call("pulls.get", "", TRUE),
                                Call("listFiles", "", outcome = "ok")>>
  /\ context' = IF outcome = "ok" THEN "context" ELSE ""
  /\ pc' = "askAI"
  /\ UNCHANGED <<inputs, dvars, script, exitCode, rvars, question, fileContent,
                 answer, comments, evaluated, twin>>

\* askAI without a key: no request, the fixed text.
askAI_NotConfigured ==
  /\ Handling /\ pc = "askAI" /\ GROQ_API_KEY = ""
  /\ answer' = NotConfigured
  /\ pc' = "postReply"
  /\ UNCHANGED <<inputs, dvars, script, exitCode, rvars, question, fileContent,
                 context, calls, comments, evaluated, twin>>

\* askAI with a key: the request and what becomes of its outcome.
askAI_Returns(outcome) ==
  /\ Handling /\ pc = "askAI" /\ GROQ_API_KEY # ""
  /\ calls' = Append(calls, Call("completion", "", outcome \in Answers))
  /\ answer' = askAI(StackOf(script), outcome)
  /\ pc' = "postReply"
  /\ UNCHANGED <<inputs, dvars, script, exitCode, rvars, question, fileContent,
                 context, comments, evaluated, twin>>

\* postReply(reply)
postReply(ok) ==
  /\ Handling /\ pc = "postReply"
  /\ calls' = Append(calls, Call("createComment", "reply", ok))
  /\ comments' = IF ok THEN Append(comments, Reply("reply", answer)) ELSE comments
  /\ pc' = "done"
  /\ UNCHANGED <<inputs, dvars, script, exitCode, rvars, hvars, evaluated, twin>>

HandlerStep ==
  \/ \E ok \in BOOLEAN : handleComment_Help(ok)
  \/ handleComment_Question
  \/ \E ok \in BOOLEAN : handler_getContent(ok)
  \/ \E outcome \in ContextOutcomes : getPRContext(outcome)
  \/ askAI_NotConfigured
  \/ \E outcome \in AIFailures \cup Answers : askAI_Returns(outcome)
  \/ \E ok \in BOOLEAN : postReply(ok)

\* A handler started directly by a workflow step.
InitHandler ==
  /\ entry \in Handlers
  /\ LANGUAGES = <<"auto">>
  /\ PR_NUMBER = 7
  /\ GROQ_API_KEY \in {"", "key"}
  /\ prFiles = <<>>
  /\ COMMENT_BODY \in CommentBodies
  /\ NoDispatcher
  /\ script = entry
  /\ Fresh /\ NoEffects
  /\ twin = NoTwin

SpecHandler == InitHandler /\ [][HandlerStep]_vars

\* ------------------------------------ the order of the suggestions
\* The longest content, in lines, of a file of the pull requests that try the
\* order of the suggestions.
MaxLines == 2

\* Lines that give suggestions of every priority, two of them in one category.
OrderLines ==
  { "const a = b && b.c;", "console.log(x);", "<div onClick={go}>",
    "<img src={a} />", "class A extends Component {" }

\* The React reviewer started without a key on a pull request of two files.
InitOrder ==
  /\ entry = "react-reviewer.js"
  /\ LANGUAGES = <<"auto">>
  /\ PR_NUMBER = 7
  /\ GROQ_API_KEY = ""
  /\ prFiles = LongPR("react", 2)
  /\ COMMENT_BODY = <<>>
  /\ NoDispatcher
  /\ script = entry
  /\ Fresh /\ NoEffects
  /\ twin = NoTwin

\* The run of the reviewer when the host answers every request.
NextOrder ==
  \/ getPRDiff(TRUE)
  \/ \E content \in SeqsUpTo(OrderLines, MaxLines) \ { <<>> } : getContent(content)
  \/ postReviewComment(TRUE)

SpecOrder == InitOrder /\ [][NextOrder]_vars

\* --------------------------------------------- the text a rule looks at
\* Lines of each stack: for each a rule that fires on the line and a line it
\* looks for elsewhere in the file.
WindowLines(stack) ==
  CASE stack = "react"   -> { "if (ready) {", "useEffect(() => {", "}, []);", "console.log(x);" }
    [] stack = "laravel" -> { "class UserController {", "$request->validate([", "dd($user);" }
    [] stack = "swift"   -> { "class VC {", "run { x in self.go() }", "print(n)" }

\* A reviewer started without a key on a pull request of two files.
InitWindow ==
  /\ entry \in Reviewers
  /\ LANGUAGES = <<"auto">>
  /\ PR_NUMBER = 7
  /\ GROQ_API_KEY = ""
  /\ prFiles = LongPR(StackOf(entry), 2)
  /\ COMMENT_BODY = <<>>
  /\ NoDispatcher
  /\ script = entry
  /\ Fresh /\ NoEffects
  /\ twin = NoTwin

\* The run of the reviewer when the host answers every request.
NextWindow ==
  \/ getPRDiff(TRUE)
  \/ Reviewing /\ \E content \in SeqsUpTo(WindowLines(StackOf(script)), MaxLines) \ { <<>> } :
                    getContent(content)
  \/ postReviewComment(TRUE)

SpecWindow == InitWindow /\ [][NextWindow]_vars

\* ------------------------------------------------------------ the dispatchers
Dispatchers == {"dispatcher.js", "comment-dispatcher.js"}

\* scriptMap[name] of the dispatcher that is running.
ScriptFor(name) ==
  IF entry = "dispatcher.js" THEN ReviewScript(name) ELSE CommentScript(name)

\* main of dispatcher.js up to the loop.
dispatcher_main ==
  /\ entry = "dispatcher.js" /\ dpc = "start"
  /\ toRun' = ReviewToRun(LANGUAGES, PR_NUMBER)
  /\ dpc' = "loop"
  /\ UNCHANGED <<inputs, di, fail, dispatcherExit, spawned, ended, script, pc, exitCode,
                 rvars, hvars, calls, comments, evaluated, twin>>

\* main of comment-dispatcher.js up to the loop.
commentDispatcher_main ==
  /\ entry = "comment-dispatcher.js" /\ dpc = "start"
  /\ toRun' = CommentToRun(LANGUAGES)
  /\ dpc' = "loop"
  /\ UNCHANGED <<inputs, di, fail, dispatcherExit, spawned, ended, script, pc, exitCode,
                 rvars, hvars, calls, comments, evaluated, twin>>

\* runScript(name) for a name without a path: return 0, nothing is run.
runScript_NoPath ==
  /\ dpc = "loop" /\ di <= Len(toRun)
  /\ ScriptFor(toRun[di]) = ""
  /\ di' = di + 1
  /\ UNCHANGED <<inputs, dpc, toRun, fail, dispatcherExit, spawned, ended, script, pc,
                 exitCode, rvars, hvars, calls, comments, evaluated, twin>>

\* runScript(name): spawnSync of the script, which starts afresh with the
\* environment of the dispatcher.
runScript_Spawn ==
  /\ dpc = "loop" /\ di <= Len(toRun)
  /\ ScriptFor(toRun[di]) # ""
  /\ script' = ScriptFor(toRun[di])
  /\ spawned' = Append(spawned, script')
  /\ dpc' = "wait"
  /\ pc' = "start" /\ exitCode' = 0
  /\ files' = <<>> /\ idx' = 1
  /\ allCritical' = <<>> /\ allSuggestions' = <<>> /\ aiReviews' = <<>>
  /\ waited' = 0
  /\ question' = <<>> /\ fileContent' = "" /\ context' = "" /\ answer' = ""
  /\ UNCHANGED <<inputs, toRun, di, fail, dispatcherExit, ended, calls, comments,
                 evaluated, twin>>

\* What spawnSync returns is the exit status of the child and the signal that
\* ended it ("" for none), in which case the status is null.
\* res.status || 0: the status of the child, and 0 when it is null.
statusOrZero(res) == IF res.signal # "" THEN 0 ELSE res.status

\* spawnSync returns res, runScript returns its status, and main records a
\* non-zero one.
runScript_Ends(res) ==
  /\ fail' = IF statusOrZero(res) # 0 THEN statusOrZero(res) ELSE fail
  /\ ended' = Append(ended, res)
  /\ di' = di + 1
  /\ dpc' = "loop"
  /\ script' = ""
  /\ UNCHANGED <<inputs, toRun, dispatcherExit, spawned, pc, exitCode, rvars,
                 hvars, calls, comments, evaluated, twin>>

\* The child runs to its end and exits with its exit code.
runScript_Returns ==
  /\ dpc = "wait" /\ pc = "done"
  /\ runScript_Ends([status |-> exitCode, signal |-> ""])

\* The child is ended by a signal before it has finished.
runScript_Killed ==
  /\ dpc = "wait" /\ pc # "done"
  /\ runScript_Ends([status |-> 0, signal |-> "SIGKILL"])

\* After the loop: process.exitCode = fail (exit in the comment dispatcher).
dispatcher_exit ==
  /\ dpc = "loop" /\ di > Len(toRun)
  /\ dispatcherExit' = fail
  /\ dpc' = "done"
  /\ UNCHANGED <<inputs, toRun, di, fail, spawned, ended, script, pc, exitCode, rvars,
                 hvars, calls, comments, evaluated, twin>>

DispatcherStep ==
  \/ dispatcher_main
  \/ commentDispatcher_main
  \/ runScript_NoPath
  \/ runScript_Spawn
  \/ runScript_Returns
  \/ runScript_Killed
  \/ dispatcher_exit

\* A workflow step that starts one of the two dispatchers.
Init ==
  /\ entry \in Dispatchers
  /\ LANGUAGES \in LanguageInputs
  /\ IF entry = "dispatcher.js"
       THEN /\ PR_NUMBER \in {0, 7}
            /\ prFiles \in PullRequests
            /\ COMMENT_BODY = <<>>
       ELSE /\ PR_NUMBER = 7
            /\ prFiles = <<>>
            /\ COMMENT_BODY \in CommentBodies
  /\ GROQ_API_KEY \in {"", "key"}
  /\ dpc = "start" /\ toRun = <<>> /\ di = 1 /\ fail = 0 /\ dispatcherExit = 0
  /\ spawned = <<>> /\ ended = <<>>
  /\ script = ""
  /\ Fresh /\ NoEffects
  /\ twin = NoTwin

Next == DispatcherStep \/ ReviewerStep \/ HandlerStep

Spec == Init /\ [][Next]_vars

\* Two runs of a reviewer, side by side, over the same files.
InitPair ==
  /\ entry \in Reviewers
  /\ LANGUAGES = <<"auto">>
  /\ PR_NUMBER \in {0, 7}
  /\ GROQ_API_KEY \in {"", "key"}
  /\ prFiles \in PullRequests
  /\ COMMENT_BODY = <<>>
  /\ NoDispatcher
  /\ script = entry
  /\ Fresh /\ NoEffects
  /\ twin \in {[NoTwin EXCEPT !.on = TRUE, !.key = k, !.same = s] :
                 k \in {"", "key"}, s \in {"critical", "content"}}

SpecPair == InitPair /\ [][ReviewerStep]_vars

\* A workflow step that starts a dispatcher or one of the reviewers directly.
SpecAll == (Init \/ InitReview) /\ [][Next]_vars

\* ------------------------------------------------------------------ claims
\* The requests of one interface the running script has sent, in order.
CallsOf(api) == SelectSeq(calls, LAMBDA c : c.by = script /\ c.api = api)

\* A critical pattern finding was collected from a file the run processed.
CriticalCollected ==
  \E k \in DOMAIN evaluated :
    /\ evaluated[k].by = script
    /\ Len(analyzeCode(StackOf(script), evaluated[k].content,
                       evaluated[k].file).critical) > 0

ReviewDone == Reviewing /\ pc = "done"

\* C1: a review run that processes files ends with a non-zero exit status if
\* and only if a critical pattern finding was collected from a processed
\* file, whatever fetches, AI requests or postings failed.
C1_GateIffCritical ==
  (ReviewDone /\ files # <<>>) => ((exitCode # 0) <=> CriticalCollected)

\* A failing run in which a fetch, the AI request and the posting all failed.
C1_Witness ==
  /\ ReviewDone /\ exitCode # 0
  /\ comments = <<>>
  /\ \E k \in DOMAIN calls : calls[k].api = "getContent" /\ ~calls[k].ok
  /\ \E k \in DOMAIN calls : calls[k].api = "completion" /\ ~calls[k].ok

\* C2: two runs over the same files with the same critical findings end with
\* the same exit status, whatever suggestions and AI replies each collected.
C2_GateOnlyOnCritical ==
  ReviewDone => twin.exitCode = exitCode

\* A passing run beside a run that collected suggestions and an AI review.
C2_Witness ==
  /\ ReviewDone /\ twin.on /\ files # <<>>
  /\ exitCode = 0
  /\ allSuggestions = <<>> /\ aiReviews = <<>>
  /\ twin.acc.allSuggestions # <<>> /\ twin.acc.aiReviews # <<>>

\* The files whose content request failed, and those whose AI request failed.
FailedFetch == {c.arg : c \in {d \in Range(CallsOf("getContent")) : ~d.ok}}
FailedAI == {c.arg : c \in {d \in Range(CallsOf("completion")) : ~d.ok}}

\* C10: a failed content fetch or AI request never aborts the run: every file
\* of the batch is still fetched, every fetched file is evaluated, the
\* failing step adds nothing to the report, and the report is still posted.
C10_FailureDoesNotAbort ==
  (ReviewDone /\ files # <<>>) =>
    /\ [i \in 1..Len(CallsOf("getContent")) |-> CallsOf("getContent")[i].arg]
         = [i \in 1..Len(Batch) |-> Batch[i].filename]
    /\ [i \in 1..Len(evaluated) |-> evaluated[i].file]
         = [i \in 1..Len(SelectSeq(CallsOf("getContent"), LAMBDA c : c.ok)) |->
              SelectSeq(CallsOf("getContent"), LAMBDA c : c.ok)[i].arg]
    /\ \A e \in Range(allCritical) \cup Range(allSuggestions) \cup Range(aiReviews) :
         e.file \notin FailedFetch
    /\ \A e \in Range(aiReviews) : e.file \notin FailedAI
    /\ Len(CallsOf("createComment")) = 1
    /\ calls[Len(calls)].api = "createComment"
    /\ calls[Len(calls)].ok =>
         /\ Len(comments) = 1
         /\ \A q \in Range(comments[1].body) : q.file \notin FailedFetch
         /\ \A q \in Range(comments[1].body) :
              q.part = "ai-review" => q.file \notin FailedAI

\* The first file could not be fetched, the AI request for the second failed,
\* and the report with the second file's finding is on the pull request.
C10_Witness ==
  /\ ReviewDone /\ Len(Batch) = 2
  /\ Batch[1].filename \in FailedFetch
  /\ Batch[2].filename \in FailedAI
  /\ allCritical # <<>>
  /\ Len(comments) = 1

\* The comment is made of mention tokens and white space only.
RECURSIVE OnlyMentions(_)
OnlyMentions(s) ==
  \/ s = <<>>
  \/ IsSpace(Head(s)) /\ OnlyMentions(Tail(s))
  \/ /\ MatchAt(toLowerCase(s), 1, Chars("@ai-reviewer"))
     /\ OnlyMentions(SubSeq(s, Len(Chars("@ai-reviewer")) + 1, Len(s)))

\* C9: for a comment that holds nothing but the mention token the handler
\* sends one request, the help reply, and neither an AI completion request
\* nor a request for the pull request's context.
C9_HelpWithoutAI ==
  (Handling /\ pc = "done" /\ OnlyMentions(Concat(COMMENT_BODY))) =>
    /\ Len(CallsOf("createComment")) = 1
    /\ CallsOf("createComment")[1].arg = "help"
    /\ CallsOf("completion") = <<>>
    /\ CallsOf("pulls.get") = <<>>
    /\ CallsOf("listFiles") = <<>>
    /\ CallsOf("getContent") = <<>>
    /\ \A k \in DOMAIN comments :
         comments[k].by = script => comments[k].body[1].part = "help"

\* A comment of two mentions, answered with the help message although the
\* key is configured.
C9_Witness ==
  /\ Handling /\ pc = "done"
  /\ COMMENT_BODY = <<"@ai-reviewer", "@AI-Reviewer">>
  /\ GROQ_API_KEY # ""
  /\ Len(comments) = 1 /\ comments[1].body[1].part = "help"

\* The names the languages input asks for, and whether it asks for auto mode.
Requested == Range(parseLanguages(LANGUAGES))
AutoMode == "auto" \in Requested

DispatchDone == dpc = "done"

\* C3: in explicit mode a requested name that is no known stack makes the
\* dispatcher, review or comment, end with a failure status.
C3_UnknownNameFails ==
  (DispatchDone /\ ~AutoMode /\ Requested \ Stacks # {}) => dispatcherExit # 0

\* C4: when the languages input names swift, the review dispatcher runs the
\* Swift reviewer.
C4_SwiftReviewerRuns ==
  (entry = "dispatcher.js" /\ DispatchDone /\ ~AutoMode /\ "swift" \in Requested)
    => "swift-reviewer.js" \in Range(spawned)

\* The file name carries an extension of the stack.
HasExtensionOf(stack, fn) ==
  CASE stack = "react"   -> IsJsTs(fn)
    [] stack = "laravel" -> endsWith(Chars(fn), Chars(".php"))
    [] stack = "swift"   -> endsWith(Chars(fn), Chars(".swift"))

ChangedFileOf(stack) == \E i \in DOMAIN prFiles : HasExtensionOf(stack, prFiles[i].filename)

ReviewerOf(stack) == CHOOSE r \in Reviewers : StackOf(r) = stack

\* C5: in auto mode on a pull request with a file of some stack, the review
\* dispatcher runs the reviewer of a stack if and only if a changed file
\* carries an extension of that stack.
C5_AutoSelectsByFiles ==
  (/\ entry = "dispatcher.js" /\ DispatchDone /\ AutoMode /\ PR_NUMBER # 0
   /\ \E s \in Stacks : ChangedFileOf(s))
    => \A s \in Stacks : ReviewerOf(s) \in Range(spawned) <=> ChangedFileOf(s)

\* C6: in auto mode, when no changed file belongs to any stack, either
\* dispatcher runs exactly one script, that of the default profile.
C6_OneDefaultProfile ==
  (DispatchDone /\ AutoMode /\ \A s \in Stacks : ~ChangedFileOf(s))
    => Len(spawned) = 1

\* C7: one run of the review dispatcher leaves at most one review comment on
\* the pull request.
C7_OneReviewComment ==
  (entry = "dispatcher.js" /\ DispatchDone) => Len(comments) <= 1

\* The comment mentions the reviewer, which is what triggers the Q&A path.
Triggering == includes(toLowerCase(Concat(COMMENT_BODY)), Chars("@ai-reviewer"))

\* C8: for a triggering comment, one run of the comment dispatcher that is
\* asked for known stacks or for auto mode, and whose postings all succeed,
\* leaves exactly one reply on the pull request, and the reply of a failed AI
\* request is a fallback message.
C8_OneReply ==
  (/\ entry = "comment-dispatcher.js" /\ DispatchDone /\ Triggering
   /\ Requested # {} /\ Requested \subseteq Stacks \cup {"auto"}
   /\ \A k \in DOMAIN calls : calls[k].api = "createComment" => calls[k].ok)
    => /\ Len(comments) = 1
       /\ (\E k \in DOMAIN calls : calls[k].api = "completion" /\ ~calls[k].ok)
            => comments[1].body[1].text \in Fallbacks

\* C11: a reviewer run whose request for the changed files fails ends with a
\* non-zero exit status.
C11_ListFailureIsFatal ==
  (ReviewDone /\ \E k \in DOMAIN calls :
                   calls[k].by = script /\ calls[k].api = "listFiles" /\ ~calls[k].ok)
    => exitCode # 0

\* C12: a review run without a pull request number sends no request, posts
\* no report and ends with a non-zero status, in the reviewer and in the
\* review dispatcher.
C12_NoPRNumberFails ==
  (PR_NUMBER = 0 /\ entry = "dispatcher.js") =>
    /\ calls = <<>> /\ comments = <<>>
    /\ ReviewDone => exitCode # 0
    /\ DispatchDone => dispatcherExit # 0

\* The report the running reviewer has posted.
Posted == Reviewing /\ pc = "done" /\ \E k \in DOMAIN comments : comments[k].by = script
Report == comments[CHOOSE k \in DOMAIN comments : comments[k].by = script].body

\* The file header a line of the critical section stands under.
FileHeaderOf(body, k) ==
  LET hs == {j \in 1..(k - 1) : body[j].part = "critical-file"} IN
  IF hs = {} THEN "" ELSE body[CHOOSE j \in hs : \A i \in hs : i <= j].file

\* The category a line of the suggestions section stands under: the Swift
\* report names it on the line, the React report in the heading above.
CategoryOf(body, k) ==
  LET hs == {j \in 1..(k - 1) : body[j].part = "category"} IN
  IF hs = {} THEN body[k].tag ELSE body[CHOOSE j \in hs : \A i \in hs : i <= j].tag

CriticalShown(body, file, issue) ==
  Cardinality({k \in DOMAIN body :
                 /\ body[k].part = "critical-issue"
                 /\ body[k].line = issue.line /\ body[k].text = issue.message
                 /\ FileHeaderOf(body, k) = file})

SuggestionShown(body, file, s) ==
  Cardinality({k \in DOMAIN body :
                 /\ body[k].part = "suggestion" /\ body[k].file = file
                 /\ body[k].line = s.line /\ body[k].text = s.message
                 /\ CategoryOf(body, k) = s.category})

\* C15: every finding a run collected, critical or suggestion, stands exactly
\* once in the posted report, under its file and its category.
C15_EveryFindingOnce ==
  Posted =>
    /\ \A e \in Range(allCritical) : \A i \in Range(e.issues) :
         CriticalShown(Report, e.file, i) = 1
    /\ \A e \in Range(allSuggestions) : \A s \in Range(e.suggestions) :
         SuggestionShown(Report, e.file, s) = 1

\* C13: without an AI credential a run that has files to review sends no
\* completion request and still posts its report; the posted report holds
\* every pattern finding of the run and has no AI section.
C13_WorksWithoutAI ==
  (ReviewDone /\ GROQ_API_KEY = "" /\ files # <<>>) =>
    /\ CallsOf("completion") = <<>>
    /\ Len(CallsOf("createComment")) = 1
    /\ Posted =>
         /\ \A k \in DOMAIN Report : Report[k].part \notin {"ai-header", "ai-review"}
         /\ C15_EveryFindingOnce

\* C14: a second run over the same files, with the same fetch outcomes and
\* contents but its own key and its own AI outcomes, holds the same critical
\* findings and the same suggestions as the first at the end of the run.
C14_AIIndependence ==
  (ReviewDone /\ twin.on /\ twin.same = "content") =>
    /\ twin.acc.allCritical = allCritical
    /\ twin.acc.allSuggestions = allSuggestions
    /\ totalIssues(twin.acc.allCritical) = totalIssues(allCritical)

\* A run with the AI enabled that kept a review, beside a run without a key,
\* both with a critical finding.
C14_Witness ==
  /\ ReviewDone /\ twin.on /\ twin.same = "content"
  /\ GROQ_API_KEY # "" /\ twin.key = ""
  /\ aiReviews # <<>> /\ twin.acc.aiReviews = <<>>
  /\ allCritical # <<>>

\* The file path lies under one of the vendor, build, generated or test
\* paths its stack reviewer leaves out.
OnExcludedPath(stack, fn) ==
  CASE stack = "react"   -> ReactExcluded(fn)
    [] stack = "laravel" -> LaravelExcluded(fn)
    [] stack = "swift"   -> SwiftExcluded(fn)

\* C16: for a file on an excluded path analyzeCode returns no critical
\* finding and no suggestion, whatever the content, and the run collects
\* nothing for the file.
C16_ExcludedFilesAreSilent ==
  \A k \in DOMAIN evaluated :
    LET e == evaluated[k] IN
    OnExcludedPath(StackOf(e.by), e.file) =>
      /\ analyzeCode(StackOf(e.by), e.content, e.file)
           = [critical |-> <<>>, suggestions |-> <<>>]
      /\ e.by = script =>
           \A f \in Range(allCritical) \cup Range(allSuggestions) : f.file # e.file

\* A test file whose content holds a critical pattern went through a run that
\* ended clean.
C16_Witness ==
  /\ ReviewDone /\ exitCode = 0 /\ comments # <<>>
  /\ \E k \in DOMAIN evaluated :
       /\ OnExcludedPath(StackOf(script), evaluated[k].file)
       /\ Len(criticalFrom(StackOf(script), evaluated[k].content, 1)) > 0

\* The one-line Swift file that force-unwraps an optional.
ForceUnwrapFile == <<"let n = name!">>

\* C17: a changed Swift file whose one line force-unwraps an optional yields
\* exactly one critical finding at that line, and the run ends with a
\* non-zero exit status.
C17_ForceUnwrapIsCritical ==
  (/\ ReviewDone /\ StackOf(script) = "swift"
   /\ \E k \in DOMAIN evaluated :
        /\ evaluated[k].by = script
        /\ evaluated[k].content = ForceUnwrapFile
        /\ ~OnExcludedPath("swift", evaluated[k].file))
    => /\ \A k \in DOMAIN evaluated :
            (/\ evaluated[k].by = script
             /\ evaluated[k].content = ForceUnwrapFile
             /\ ~OnExcludedPath("swift", evaluated[k].file))
              => LET found == analyzeCode("swift", evaluated[k].content, evaluated[k].file).critical
                 IN  Len(found) = 1 /\ found[1].line = 1
       /\ exitCode # 0

\* The file filter of the reviewer of a stack rejects this changed file.
OutsideMatcher(stack, f) ==
  CASE stack = "react"   -> ~ReactMatches(f)
    [] stack = "laravel" -> ~LaravelMatches(f)
    [] stack = "swift"   -> ~SwiftMatches(f)

\* A pull request with changed files, none of which any reviewer keeps.
NothingToReview ==
  /\ entry \in Reviewers \cup {"dispatcher.js"}
  /\ PR_NUMBER # 0 /\ prFiles # <<>>
  /\ \A s \in Stacks : \A i \in DOMAIN prFiles : OutsideMatcher(s, prFiles[i])

\* C18: a pull request whose changed files all lie outside every stack's file
\* filter gives each reviewer zero files, no content fetch, no finding and no
\* comment, and every reviewer and the dispatcher end with exit status zero.
C18_OutsideEveryMatcherIsClean ==
  NothingToReview =>
    /\ Reviewing => /\ files = <<>>
                    /\ allCritical = <<>> /\ allSuggestions = <<>> /\ aiReviews = <<>>
                    /\ exitCode = 0
    /\ \A k \in DOMAIN calls : calls[k].api = "listFiles"
    /\ evaluated = <<>> /\ comments = <<>>
    /\ fail = 0
    /\ DispatchDone => dispatcherExit = 0

\* The dispatcher ran reviewers over a documentation-only pull request: each
\* listed the files, and the dispatcher ended clean.
C18_Witness ==
  /\ NothingToReview /\ entry = "dispatcher.js" /\ DispatchDone
  /\ \A i \in DOMAIN prFiles : prFiles[i].filename = "README.md"
  /\ Len(spawned) = 2
  /\ \E k \in DOMAIN calls : calls[k].api = "listFiles" /\ calls[k].ok
  /\ dispatcherExit = 0

\* The Swift reviewer, started directly, ended clean on such a pull request.
C18_WitnessSwift ==
  /\ NothingToReview /\ entry = "swift-reviewer.js" /\ ReviewDone
  /\ calls # <<>> /\ calls[1].ok /\ exitCode = 0

\* The names of the first N files the reviewer kept, N the cap of its stack.
WithinCap ==
  {files[i].filename : i \in {j \in DOMAIN files : j <= Cap(StackOf(script))}}

\* C19: a reviewer processes only the first N matching changed files: every
\* content fetch, pattern evaluation, AI request, collected finding and line
\* of the report concerns one of them, the loop never goes past them, and the
\* exit status follows the critical findings collected from them alone.
C19_OnlyFirstNProcessed ==
  Reviewing =>
    /\ \A k \in DOMAIN calls :
         (calls[k].by = script /\ calls[k].api \in {"getContent", "completion"})
           => calls[k].arg \in WithinCap
    /\ \A k \in DOMAIN evaluated :
         evaluated[k].by = script => evaluated[k].file \in WithinCap
    /\ \A e \in Range(allCritical) \cup Range(allSuggestions) \cup Range(aiReviews) :
         e.file \in WithinCap
    /\ idx <= Cap(StackOf(script)) + 1
    /\ Len(CallsOf("getContent")) <= Cap(StackOf(script))
    /\ Len(CallsOf("completion")) <= Cap(StackOf(script))
    /\ Posted => \A k \in DOMAIN Report : Report[k].file \in WithinCap \cup {""}
    /\ (ReviewDone /\ files # <<>>) => ((exitCode # 0) <=> CriticalCollected)

\* A run over more matching files than the cap ended clean after it fetched
\* and evaluated exactly the first N, asked the AI about each, and posted.
C19_Witness ==
  /\ ReviewDone /\ Len(files) > Cap(StackOf(script))
  /\ Len(CallsOf("getContent")) = Cap(StackOf(script))
  /\ Len(CallsOf("completion")) = Cap(StackOf(script))
  /\ \A k \in DOMAIN evaluated : evaluated[k].file # files[Len(files)].filename
  /\ Posted /\ exitCode = 0

\* The completion requests of the running reviewer about a file.
CompletionsFor(file) ==
  SelectSeq(calls, LAMBDA c : c.by = script /\ c.api = "completion" /\ c.arg = file)

\* C20: within one reviewer run no file is the subject of more than one
\* completion request; in particular a request that failed is not sent again.
C20_OneRequestPerFile ==
  Reviewing =>
    \A i \in DOMAIN files : Len(CompletionsFor(files[i].filename)) <= 1

\* A finished run whose completion request about a file failed, and that was
\* the only request about the file.
C20_Witness ==
  /\ ReviewDone
  /\ \E k \in DOMAIN calls :
       /\ calls[k].by = script /\ calls[k].api = "completion" /\ ~calls[k].ok
       /\ Len(CompletionsFor(calls[k].arg)) = 1
  /\ Posted

\* The pacing delay the reviewers are to keep between AI requests.
ClaimedPace(stack) == IF stack = "swift" THEN 400 ELSE 500

\* The last completion request of the running reviewer.
LastCompletion == CallsOf("completion")[Len(CallsOf("completion"))]

\* C21: when a reviewer run sends an AI completion request after an earlier
\* one, the pacing delay (500 ms for React and Laravel, 400 ms for Swift) has
\* been waited in full since the earlier request returned, also when that
\* request failed or its reply was discarded.
C21_PacedBetweenRequests ==
  (Reviewing /\ CallsOf("completion") # <<>>)
    => /\ pc = "callGroqAI" => waited >= ClaimedPace(StackOf(script))
       /\ pc = "loop" => waited >= ClaimedPace(StackOf(script))

\* A second request is in flight after the first one failed and the run
\* kept no review.
C21_Witness ==
  /\ Reviewing /\ pc = "callGroqAI"
  /\ Len(CallsOf("completion")) = 1 /\ ~LastCompletion.ok
  /\ aiReviews = <<>>
  /\ waited = ClaimedPace(StackOf(script))

\* The longest diff text a review prompt of a stack is to carry.
ClaimedPreview(stack) == IF stack = "react" THEN 3500 ELSE 3000

IsPrefix(d, p) == Len(d) <= Len(p) /\ \A i \in 1..Len(d) : d[i] = p[i]

\* The patch of the changed file of that name.
PatchOf(name) ==
  PatchText(prFiles[CHOOSE i \in DOMAIN prFiles : prFiles[i].filename = name].patch)

ReviewPrompts == {k \in DOMAIN calls : calls[k].api = "completion" /\ calls[k].by \in Reviewers}

\* C22: the diff text of every review prompt is a prefix of the patch of its
\* file, of at most 3000 characters (3500 for React), and is the whole patch
\* when the patch is not longer than that.
C22_PromptCarriesBoundedPrefix ==
  \A k \in ReviewPrompts :
    LET d     == calls[k].diff
        p     == PatchOf(calls[k].arg)
        bound == ClaimedPreview(StackOf(calls[k].by))
    IN  /\ IsPrefix(d, p)
        /\ Len(d) <= bound
        /\ Len(p) <= bound => d = p

\* A prompt was sent about a patch longer than the bound of the stack, and it
\* carried exactly the first characters up to the bound.
C22_Witness ==
  \E k \in ReviewPrompts :
    /\ Len(PatchOf(calls[k].arg)) > ClaimedPreview(StackOf(calls[k].by))
    /\ Len(calls[k].diff) = ClaimedPreview(StackOf(calls[k].by))

\* The changed file of that name.
ChangedFile(name) == prFiles[CHOOSE i \in DOMAIN prFiles : prFiles[i].filename = name]

\* An AI request goes out only with a credential, after the content of the
\* file was fetched, and for a patch longer than 50 characters.
AIRequestsAreGated ==
  \A k \in ReviewPrompts :
    /\ GROQ_API_KEY # ""
    /\ ChangedFile(calls[k].arg).patch > 50
    /\ \E j \in 1..(k - 1) :
         /\ calls[j].api = "getContent" /\ calls[j].by = calls[k].by
         /\ calls[j].arg = calls[k].arg /\ calls[j].ok

\* The files of the run that have no patch or one of at most 50 characters
\* and whose content was fetched.
SmallPatchFetched ==
  {k \in DOMAIN calls :
     /\ calls[k].by = script /\ calls[k].api = "getContent" /\ calls[k].ok
     /\ ChangedFile(calls[k].arg).patch <= 50}

\* Such a file went through analyzeCode and the run holds its findings.
SmallPatchEvaluated ==
  \A k \in SmallPatchFetched :
    \E j \in DOMAIN evaluated :
      LET e     == evaluated[j]
          found == analyzeCode(StackOf(script), e.content, e.file)
      IN  /\ e.by = script /\ e.file = calls[k].arg
          /\ found.critical # <<>> =>
               [file |-> e.file, issues |-> found.critical] \in Range(allCritical)
          /\ found.suggestions # <<>> =>
               [file |-> e.file, suggestions |-> found.suggestions] \in Range(allSuggestions)

\* The findings of such a file stand in the posted report.
SmallPatchReported ==
  \A k \in SmallPatchFetched :
    /\ \A e \in Range(allCritical) : e.file = calls[k].arg =>
         \A i \in Range(e.issues) : CriticalShown(Report, e.file, i) = 1
    /\ \A e \in Range(allSuggestions) : e.file = calls[k].arg =>
         \A s \in Range(e.suggestions) : SuggestionShown(Report, e.file, s) = 1

\* C23: an AI request is issued for a file only if a credential is
\* configured, the content fetch of the file succeeded and its patch is
\* longer than 50 characters; a file with no patch or a patch of at most 50
\* characters is still pattern-evaluated and its findings are reported.
C23_AIGatedButPatternsAlways ==
  /\ AIRequestsAreGated
  /\ ReviewDone => SmallPatchEvaluated
  /\ Posted => SmallPatchReported

\* The reply signals that there is nothing to report: it holds a negative
\* phrase, "none" or "no issues", in any letter case.
SignalsNoFindings(reply) ==
  \/ includes(toLowerCase(Chars(reply)), toLowerCase(Chars("None")))
  \/ includes(toLowerCase(Chars(reply)), toLowerCase(Chars("No issues")))

\* The AI narratives the posted report shows under a file.
NarrativesOf(file) ==
  {k \in DOMAIN Report : Report[k].part = "ai-review" /\ Report[k].file = file}

\* C24: the reply of the AI about a file stands in the report exactly when
\* it reports issues: an empty reply or one that signals no findings is left
\* out, a reply that lists an issue stands under its file.
C24_ReplyShownIffIssues ==
  Posted =>
    \A k \in DOMAIN calls :
      (calls[k].by = script /\ calls[k].api = "completion") =>
        LET reply == calls[k].reply IN
        IF reply = "" \/ SignalsNoFindings(reply)
          THEN NarrativesOf(calls[k].arg) = {}
          ELSE \E j \in NarrativesOf(calls[k].arg) : Report[j].text = reply

\* The places of the parts of a kind in the posted report.
PartsOf(kind) == {k \in DOMAIN Report : Report[k].part = kind}

\* The part at place k of the report is followed by a part of that kind.
FollowedBy(k, kind) == k + 1 \in DOMAIN Report /\ Report[k + 1].part = kind

\* C25: in every posted report the "no critical issues" line is present if
\* and only if the run has no critical finding and no AI narrative, and each
\* section header (Critical Issues, AI Deep Analysis, Suggestions) is
\* directly followed by an entry of its section.
C25_NoEmptySections ==
  Posted =>
    /\ (PartsOf("no-critical") # {}) <=> (totalIssues(allCritical) = 0 /\ aiReviews = <<>>)
    /\ Cardinality(PartsOf("no-critical")) <= 1
    /\ \A k \in PartsOf("critical-header") :
         FollowedBy(k, "critical-file") /\ FollowedBy(k + 1, "critical-issue")
    /\ \A k \in PartsOf("ai-header") : FollowedBy(k, "ai-review")
    /\ \A k \in PartsOf("suggestions-header") :
         \/ FollowedBy(k, "suggestion")
         \/ FollowedBy(k, "category") /\ FollowedBy(k + 1, "suggestion")
    /\ \A k \in PartsOf("category") : FollowedBy(k, "suggestion")

\* A report that shows the AI section and the suggestions but no critical
\* section, and so no affirmative line.
C25_Witness ==
  /\ Posted
  /\ PartsOf("ai-header") # {} /\ PartsOf("suggestions-header") # {}
  /\ PartsOf("critical-header") = {} /\ PartsOf("no-critical") = {}

\* The place of each kind of part in the layout of the report: the header,
\* the Critical Issues section, the AI Deep Analysis section, the Suggestions
\* section, the closing part; 9 for a part that belongs to none of them.
SectionOf(kind) ==
  CASE kind \in {"title", "critical-count"}                             -> 0
    [] kind \in {"critical-header", "critical-file", "critical-issue"}  -> 1
    [] kind \in {"ai-header", "ai-review"}                              -> 2
    [] kind \in {"suggestions-header", "category", "suggestion"}        -> 3
    [] kind \in {"legend", "usage-hint"}                                -> 4
    [] OTHER                                                            -> 9

\* The sections of the report come in the fixed order.
SectionsInOrder ==
  /\ Report[1].part = "title" /\ Report[Len(Report)].part = "usage-hint"
  /\ \A j, k \in DOMAIN Report :
       (j < k /\ SectionOf(Report[j].part) # 9 /\ SectionOf(Report[k].part) # 9)
         => SectionOf(Report[j].part) <= SectionOf(Report[k].part)

\* After the Suggestions section has begun there is nothing but that section
\* and the closing part.
OnlyClosingAfterSuggestions ==
  \A j, k \in DOMAIN Report :
    (j < k /\ SectionOf(Report[j].part) = 3) => SectionOf(Report[k].part) \in {3, 4}

\* C26: every posted report lays out its parts in one fixed order: header,
\* Critical Issues, AI Deep Analysis, Suggestions, closing legend and usage
\* hint, and nothing else stands between or after the Suggestions section
\* and the closing part.
C26_FixedLayout ==
  Posted => SectionsInOrder /\ OnlyClosingAfterSuggestions

\* The tier of a suggestion line of the report: high before medium before low.
TierOf(k) == CASE Report[k].tag = "high" -> 0 [] Report[k].tag = "medium" -> 1 [] OTHER -> 2

\* The suggestion lines that stand under the category heading at place j.
LinesUnder(j) ==
  {k \in PartsOf("suggestion") : k > j /\ \A i \in PartsOf("category") : i > j => k < i}

\* The best tier among the lines under the category heading at place j.
BestTier(j) == CHOOSE t \in 0..2 :
  /\ \E k \in LinesUnder(j) : TierOf(k) = t
  /\ \A k \in LinesUnder(j) : TierOf(k) >= t

\* C27: in the Suggestions section of the React report the categories stand
\* in the order of the best priority tier they hold (a category with a high
\* item before every category with only medium or low items), and within a
\* category the high items precede the medium items, which precede the low.
C27_CategoriesByBestTier ==
  (Posted /\ StackOf(script) = "react") =>
    /\ \A i, j \in PartsOf("category") : i < j => BestTier(i) <= BestTier(j)
    /\ \A j \in PartsOf("category") :
         \A k, l \in LinesUnder(j) : k < l => TierOf(k) <= TierOf(l)

\* A report in which a category that was found later, and holds a high item
\* after a medium one in the file, stands first with the high item on top.
C27_Witness ==
  /\ Posted /\ StackOf(script) = "react"
  /\ Len(allSuggestions) = 2
  /\ allSuggestions[1].suggestions[1].priority = "low"
  /\ \E j \in PartsOf("category") :
       /\ \A i \in PartsOf("category") : j <= i
       /\ Report[j].tag = "Accessibility"
       /\ Cardinality(LinesUnder(j)) = 2
       /\ \E k, l \in LinesUnder(j) :
            k < l /\ TierOf(k) = 0 /\ TierOf(l) = 1 /\ Report[k].line > Report[l].line
  /\ Cardinality(PartsOf("category")) = 2

\* C28: the question a handler extracts from a comment body holds no
\* occurrence of the trigger token @ai-reviewer in any letter case, has no
\* leading or trailing whitespace, and extracting from it again returns it
\* unchanged.
C28_ExtractedQuestionIsClean ==
  (Handling /\ pc # "start" /\ question # <<>>) =>
    /\ question = extractQuestion(Concat(COMMENT_BODY))
    /\ ~includes(toLowerCase(question), Chars("@ai-reviewer"))
    /\ trim(question) = question
    /\ extractQuestion(question) = question

\* The rules that report at line n of an evaluated file, each named by its
\* message.
ReportedAt(e, n) ==
  LET r == analyzeCode(StackOf(e.by), e.content, e.file) IN
  {r.critical[k].message : k \in {i \in DOMAIN r.critical : r.critical[i].line = n}}
    \cup {r.suggestions[k].message :
            k \in {i \in DOMAIN r.suggestions : r.suggestions[i].line = n}}

\* Two contents agree on line n and on every line after it, and so on the
\* line plus the next N lines for every N.
AgreeFrom(c, d, n) ==
  /\ n \in DOMAIN c /\ Len(c) = Len(d)
  /\ \A i \in n..Len(c) : c[i] = d[i]

\* C29: whether a rule reports at a line depends only on the line and the
\* lines after it: two contents that agree from the line on give the same
\* outcome for every rule at that line, whatever the text before the line.
C29_RulesSeeOnlyTheirWindow ==
  \A a, b \in DOMAIN evaluated :
    LET e == evaluated[a]
        f == evaluated[b]
    IN  (e.by = f.by /\ ~OnExcludedPath(StackOf(e.by), e.file)
                     /\ ~OnExcludedPath(StackOf(f.by), f.file))
          => \A n \in DOMAIN e.content :
               AgreeFrom(e.content, f.content, n) => ReportedAt(e, n) = ReportedAt(f, n)

\* The reviewers the dispatcher selected, in the selected order.
SelectedReviewers == [i \in DOMAIN toRun |-> ReviewerOf(toRun[i])]

\* A reviewer the dispatcher ran ended with a non-zero status or was ended
\* by a signal.
SomeReviewerFailed ==
  \E k \in DOMAIN ended : ended[k].signal # "" \/ ended[k].status # 0

\* C30: the review dispatcher runs every selected reviewer, one after
\* another in the selected order, also after an earlier one exited non-zero,
\* and its own exit status is non-zero if and only if a reviewer it ran
\* ended non-zero or abnormally (stated for the React and Laravel reviewers,
\* the two the dispatcher has a script for).
C30_RunsAllAndReportsFailure ==
  (entry = "dispatcher.js" /\ DispatchDone /\ Range(toRun) \subseteq {"react", "laravel"}) =>
    /\ spawned = SelectedReviewers
    /\ Len(ended) = Len(spawned)
    /\ (dispatcherExit # 0) <=> SomeReviewerFailed

=============================================================================
